---- MODULE Spec2Model ----
(***************************************************************************)
(* Serving pipeline of the Sri Lanka property price API (backend/main.py): *)
(* the artifacts loaded at start-up, the /predict handler, the /forecast   *)
(* handler with its precomputed-cache fast path and its live per-year      *)
(* fallback, and the two read-only endpoints /meta and /forecast/districts.*)
(*                                                                         *)
(* Two specifications.  Spec runs the start-up and then one request at a   *)
(* time, each handler as one step.  SpecConc runs the same start-up and    *)
(* then the handlers of several worker threads statement group by          *)
(* statement group, interleaved.                                           *)
(*                                                                         *)
(* Dataset scripts (dataset/scrape_properties.py, extract_quality.py).     *)
(* SpecIkman runs scrape_all_ikman request by request against a server     *)
(* that answers as it likes; SpecLpw and SpecLpwFair run scrape_lpw the    *)
(* same way; SpecDates applies parse_ikman_date to one ad and SpecText     *)
(* applies classify_quality and classify_furnishing to one text.           *)
(*                                                                         *)
(* Numbers.  Prices are the integers round(expm1(log_price)) of the code.  *)
(* A percentage rounded to one decimal is kept in tenths of a percent      *)
(* (20.0 % is 200).  The trained regressors are opaque pickles: a model is *)
(* an index into a small family of deterministic functions of the row.     *)
(***************************************************************************)
EXTENDS Integers, Sequences, FiniteSets, TLC

VARIABLES
    files,               \* ml/artifacts: file name -> content
    absent,              \* the files of ml/artifacts that cannot be opened
    phase,               \* "loading", "serving" or "aborted"
    loaded,              \* load statements of the module body executed
    model,               \* lgbm_model.pkl
    encoders,            \* label_encoders.pkl: field -> classes_ (sorted)
    feature_info,        \* feature_info.json
    shap_importance,     \* shap_importance.json, in file order
    metrics,             \* metrics.json
    forecast_model,      \* forecast_model.pkl
    forecast_encoders,   \* forecast_encoders.pkl
    district_forecasts,  \* district_forecasts.json: district -> ptype -> entry
    forecast_metrics,    \* forecast_metrics.json
    df_econ_all,         \* economic_data_all.csv: year -> indicator row
    handler,             \* the handler that produced the last response
    req,                 \* the last request
    status,              \* HTTP status of the last response (0: none yet)
    body,                \* the last response body
    path,                \* "cache" or "live": branch taken by /forecast
    uncaught,            \* the exception that left the handler ("": none)
    encodeCalls,         \* safe_encode calls made by the last request
    modelCalls,          \* regressor invocations made by the last request
    rows,                \* feature rows handed to a regressor, in order
    columns,             \* column order of the frames handed to a regressor
    prices,              \* the price map the last /forecast worked on
    threads,             \* SpecConc: worker thread -> its request in flight
    finished,            \* SpecConc: some thread has completed a request
    ikman_pc,            \* scrape_all_ikman: where the run stands
    category,            \* index into IKMAN_CATEGORIES of the loop
    page,                \* scrape_ikman_category: the page of the loop
    consecutive_empty,   \* scrape_ikman_category: its counter
    records,             \* scrape_ikman_category: its list, as the urls
    resp,                \* the answer to the last request to ikman.lk
    all_records,         \* scrape_all_ikman: its list, as the urls
    seen_urls,           \* scrape_all_ikman: its set
    lpw_pc,              \* scrape_lpw: where the run stands
    needed,              \* scrape_lpw: its argument
    from_index,          \* scrape_lpw: the offset of the next request
    lpw_empty,           \* scrape_lpw: its consecutive_empty
    lpw_records,         \* scrape_lpw: its list, as the offsets of the pages
    lpw_resp,            \* the answer to the last request of scrape_lpw
    ad,                  \* parse_ikman_date: its argument
    parsed,              \* parse_ikman_date: what it returned
    text,                \* the text handed to the two classifiers
    quality_tier,        \* classify_quality(text)
    is_furnished         \* classify_furnishing(text)

disk      == <<files, absent>>
startup   == <<phase, loaded>>
artifacts == <<model, encoders, feature_info, shap_importance, metrics,
               forecast_model, forecast_encoders, district_forecasts,
               forecast_metrics, df_econ_all>>
observed  == <<handler, req, status, body, path, uncaught, encodeCalls,
               modelCalls, rows, columns, prices>>
pool      == <<threads, finished>>
server    == <<disk, startup, artifacts, observed, pool>>
ikman     == <<ikman_pc, category, page, consecutive_empty, records, resp,
               all_records, seen_urls>>
lpw       == <<lpw_pc, needed, from_index, lpw_empty, lpw_records, lpw_resp>>
dates     == <<ad, parsed>>
texts     == <<text, quality_tier, is_furnished>>
dataset   == <<ikman, lpw, dates, texts>>
vars      == <<files, absent, phase, loaded,
               model, encoders, feature_info, shap_importance, metrics,
               forecast_model, forecast_encoders, district_forecasts,
               forecast_metrics, df_econ_all,
               handler, req, status, body, path, uncaught, encodeCalls,
               modelCalls, rows, columns, prices, threads, finished,
               ikman_pc, category, page, consecutive_empty, records, resp,
               all_records, seen_urls,
               lpw_pc, needed, from_index, lpw_empty, lpw_records, lpw_resp,
               ad, parsed, text, quality_tier, is_furnished>>

(***************************************************************************)
(* Bounds of the model.                                                    *)
(***************************************************************************)
\* how many of the years 2026..2030 the indicator table may lack
MaxMissing == 1
\* size of the family of trained forecast regressors
MaxModel == 2
\* how many artifact files may be missing or unreadable at start-up
MaxAbsent == 1
\* worker threads handling requests at the same time
MaxThreads == 2
\* words of a listing text
MaxWords == 3
\* the largest number in a relative time string
MaxAge == 2
\* pages of the largest ikman.lk category
MaxPages == 4
\* records scrape_lpw is asked for
MaxNeeded == 2
\* listing cards on a page of lankapropertyweb.com
MaxCards == 2
\* offsets of lankapropertyweb.com the server has pages for
MaxOffsets == 4

(***************************************************************************)
(* Optional request numbers (float | None) and feature cells (float, NaN). *)
(***************************************************************************)
None    == [some |-> FALSE, v |-> 0]
Some(x) == [some |-> TRUE, v |-> x]
NaN     == [nan |-> TRUE, v |-> 0]
Num(x)  == [nan |-> FALSE, v |-> x]

\* a default argument left at None (falsy, like the empty string)
NoFallback == ""

(***************************************************************************)
(* str(year), int(yr) and the order sorted() puts on str keys.             *)
(* A str of digits is the sequence of its digits.                          *)
(***************************************************************************)
RECURSIVE str(_)
str(n) == IF n < 10 THEN <<n>> ELSE Append(str(n \div 10), n % 10)

RECURSIVE int(_)
int(s) == IF Len(s) = 0 THEN 0
          ELSE 10 * int(SubSeq(s, 1, Len(s) - 1)) + s[Len(s)]

\* a < b for two str values: lexicographic, a proper prefix first
StrLess(a, b) ==
    \E i \in 1..(Len(b)) :
        /\ \A j \in 1..(i - 1) : j <= Len(a) /\ a[j] = b[j]
        /\ \/ i = Len(a) + 1
           \/ i <= Len(a) /\ a[i] < b[i]

\* mutant: sorted(keys, reverse=True)
RECURSIVE SortedKeys_reversed(_)
SortedKeys_reversed(S) ==
    IF S = {} THEN <<>>
    ELSE LET m == CHOOSE x \in S : \A y \in S : y = x \/ StrLess(y, x)
         IN  <<m>> \o SortedKeys_reversed(S \ {m})

\* sorted(keys): ascending in the str order
RECURSIVE SortedKeys(_)
SortedKeys(S) ==
    IF S = {} THEN <<>>
    ELSE LET m == CHOOSE x \in S : \A y \in S : y = x \/ StrLess(x, y)
         IN  <<m>> \o SortedKeys(S \ {m})

(***************************************************************************)
(* A dict is the sequence of its items [k, v] in insertion order.          *)
(***************************************************************************)
Keys(d)   == {d[i].k : i \in DOMAIN d}
Has(d, k) == \E i \in DOMAIN d : d[i].k = k
Item(d, k) == d[CHOOSE i \in DOMAIN d : d[i].k = k].v
Get(d, k, default) == IF Has(d, k) THEN Item(d, k) ELSE default
\* d[k] = v: a new key goes last, a known key keeps its place
Put(d, k, v) ==
    IF Has(d, k)
    THEN [i \in DOMAIN d |-> IF d[i].k = k THEN [k |-> k, v |-> v] ELSE d[i]]
    ELSE Append(d, [k |-> k, v |-> v])

(***************************************************************************)
(* round(x, 1) of x = n / d * 100, in tenths: the integer nearest to       *)
(* 1000 n / d, a tie going to the even neighbour (the binary rounding      *)
(* error of the float quotient is not modelled).                           *)
(***************************************************************************)
RoundDiv(n, d) ==
    LET q == n \div d
        r == n % d
    IN  IF 2 * r < d THEN q
        ELSE IF 2 * r > d THEN q + 1
        ELSE IF q % 2 = 0 THEN q ELSE q + 1

(***************************************************************************)
(* safe_encode and the LabelEncoder it reads.                              *)
(***************************************************************************)
InClasses(le, value) == \E i \in DOMAIN le : le[i] = value
\* le.transform([value])[0]: the 0-based position in classes_
transform(le, value) == (CHOOSE i \in DOMAIN le : le[i] = value) - 1

\* mutant: the fallback category is never looked up
safe_encode_noFallback(le, value, fallback) ==
    IF InClasses(le, value) THEN transform(le, value) ELSE 0

\* mutant: the fallback category wins over a known value
safe_encode_fallbackFirst(le, value, fallback) ==
    IF fallback # NoFallback /\ InClasses(le, fallback)
    THEN transform(le, fallback)
    ELSE IF InClasses(le, value) THEN transform(le, value)
    ELSE 0

\* mutant: an unknown value is given the next free code, by order of arrival
safe_encode_byArrival(le, value, fallback) ==
    IF InClasses(le, value) THEN transform(le, value)
    ELSE IF fallback # NoFallback /\ InClasses(le, fallback)
         THEN transform(le, fallback)
    ELSE Cardinality({t \in DOMAIN threads : threads[t].codes # <<>>})

safe_encode(le, value, fallback) ==
    IF InClasses(le, value) THEN transform(le, value)
    ELSE IF fallback # NoFallback /\ InClasses(le, fallback)
         THEN transform(le, fallback)
    ELSE 0

(***************************************************************************)
(* The artifacts a server can be started on.                               *)
(***************************************************************************)
\* label_encoders.pkl: classes_ of a LabelEncoder are sorted; the fallback
\* location "Colombo" first, later, absent
EncoderSets ==
    [location      : { <<"Colombo", "Kandy">>, <<"Ampara", "Colombo">>,
                       <<"Ampara", "Kandy">> },
     property_type : { <<"Apartment", "House", "Land">> }]

\* forecast_encoders.pkl: each fallback category present or absent
ForecastEncoderSets ==
    { [location |-> <<"Ampara", "Colombo">>, property_type |-> <<"Apartment", "House", "Land">>],
      [location |-> <<"Colombo", "Kandy">>,  property_type |-> <<"Apartment", "House">>],
      [location |-> <<"Ampara", "Kandy">>,   property_type |-> <<"Apartment", "House", "Land">>] }

\* for year in [2026, 2027, 2028, 2029, 2030]
ForecastYears == <<2026, 2027, 2028, 2029, 2030>>
YearSet == {ForecastYears[i] : i \in DOMAIN ForecastYears}

\* the indicator row of a year (percentages in tenths)
EconRow(y) ==
    LET i == y - 2025
    IN  [year                 |-> y,
         inflation_pct        |-> <<45, 45, 45, 40, 40>>[i],
         lending_rate_pct     |-> <<85, 80, 75, 75, 70>>[i],
         usd_lkr              |-> <<310, 315, 320, 325, 330>>[i],
         gdp_growth_pct       |-> <<48, 50, 55, 55, 58>>[i],
         policy_rate_pct      |-> <<75, 70, 65, 65, 60>>[i],
         property_price_index |-> <<280, 294, 309, 325, 342>>[i]]

\* indicator tables: all five forecast years, a few of them missing, or none
EconTables ==
    { [y \in S |-> EconRow(y)] :
        S \in { T \in SUBSET YearSet :
                  Cardinality(YearSet \ T) <= MaxMissing \/ T = {} } }

\* the prices dict of a cache entry, keys in the order the file holds them
PriceDict(years, ps) ==
    [i \in DOMAIN years |-> [k |-> str(years[i]), v |-> ps[i]]]

\* cache entries: growth at the thresholds 20.0 and 10.0, a base year
\* missing, a base year of 0
CacheBuy  == [prices |-> PriceDict(ForecastYears, <<1000, 1050, 1100, 1150, 1200>>),
              growth_4yr_pct |-> 200]
CacheHold == [prices |-> PriceDict(ForecastYears, <<1000, 1020, 1050, 1080, 1100>>),
              growth_4yr_pct |-> 100]
CacheNoBase == [prices |-> PriceDict(<<2027, 2030>>, <<1000, 1100>>),
                growth_4yr_pct |-> 0]
CacheZeroBase == [prices |-> PriceDict(ForecastYears, <<0, 5, 10, 15, 20>>),
                  growth_4yr_pct |-> 0]

\* district -> property type -> entry
CacheFiles ==
    { <<>>,
      "Kandy" :> ("Land" :> CacheBuy @@ "House" :> CacheNoBase),
      "Kandy" :> ("Land" :> CacheZeroBase),
      "Kandy" :> ("House" :> CacheHold) }

\* FEATURES of main.py, of 02_train_evaluate.py (the schema lgbm_model.pkl
\* is trained on), of 03_explainability.py, of 05_train_forecast_model.py
\* (the schema of forecast_model.pkl) and of the older ml/01_preprocessing.py
FEATURES ==
    <<"property_type", "location", "bedrooms", "bathrooms",
      "land_size_perches", "is_for_rent", "quality_tier", "is_furnished">>
TrainFEATURES ==
    <<"property_type", "location", "bedrooms", "bathrooms",
      "land_size_perches", "is_for_rent", "quality_tier", "is_furnished">>
ExplainFEATURES ==
    <<"property_type", "location", "bedrooms", "bathrooms",
      "land_size_perches", "is_for_rent", "quality_tier", "is_furnished">>
ForecastFEATURES ==
    <<"year", "month",
      "location", "property_type",
      "bedrooms", "bathrooms", "land_size_perches",
      "inflation_pct", "lending_rate_pct", "usd_lkr",
      "gdp_growth_pct", "policy_rate_pct", "property_price_index">>
OldFEATURES ==
    <<"property_type", "location", "bedrooms", "bathrooms",
      "land_size_perches", "is_for_rent">>

\* 03_explainability.py: the label each feature is plotted and saved under
feature_labels ==
    "property_type"     :> "Property Type" @@
    "location"          :> "District / Location" @@
    "bedrooms"          :> "Number of Bedrooms" @@
    "bathrooms"         :> "Number of Bathrooms" @@
    "land_size_perches" :> "Land Size (Perches)" @@
    "is_for_rent"       :> "Rental vs Sale" @@
    "quality_tier"      :> "Quality Tier (Luxury)" @@
    "is_furnished"      :> "Furnishing Status"

display_names ==
    [i \in DOMAIN ExplainFEATURES |-> feature_labels[ExplainFEATURES[i]]]

\* shap_importance.json: display name -> mean |SHAP| over the sample, a
\* non-negative number, here in units of 0.00001
ShapFile(mean_abs) ==
    [i \in DOMAIN ExplainFEATURES |-> [k |-> display_names[i], v |-> mean_abs[i]]]

ShapFiles ==
    { ShapFile(<<35004, 91000, 12005, 12000, 64000, 200000, 8000, 0>>) }

\* metrics.json, forecast_metrics.json (R2 in units of 0.00001) and
\* feature_info.json
MetricsFiles ==
    { [train |-> [MAE |-> 4100000, R2 |-> 90412],
       val   |-> [MAE |-> 5300000, R2 |-> 80377],
       test  |-> [MAE |-> 5200000, R2 |-> 81235]] }
ForecastMetricsFiles == { [test_r2 |-> 90278, n_train |-> 9000] }
FeatureInfoFiles ==
    { [features |-> TrainFEATURES, n_rows |-> 12000,
       price_stats |-> [min |-> 100000, max |-> 900000000]] }

\* forecast_model.pkl
Models == 0..(MaxModel - 1)
\* lgbm_model.pkl: a regressor knows the features it was fitted on; one
\* fitted by 02_train_evaluate.py, and a stale one fitted on the six
\* features of the older preprocessing
TrainedModel == [features |-> TrainFEATURES, seed |-> 0]
StaleModel   == [features |-> OldFEATURES, seed |-> 0]
PriceModels  == {TrainedModel, StaleModel}

\* the files of ml/artifacts, in the order main.py loads them
LoadOrder ==
    <<"lgbm_model", "label_encoders", "feature_info", "shap_importance",
      "metrics", "forecast_model", "forecast_encoders", "district_forecasts",
      "forecast_metrics", "economic_data_all">>
FileNames == {LoadOrder[i] : i \in DOMAIN LoadOrder}

\* artifact directories written by one run of the training scripts
TrainedDirs ==
    [lgbm_model         : {TrainedModel},
     label_encoders     : EncoderSets,
     feature_info       : FeatureInfoFiles,
     shap_importance    : ShapFiles,
     metrics            : MetricsFiles,
     forecast_model     : Models,
     forecast_encoders  : ForecastEncoderSets,
     district_forecasts : CacheFiles,
     forecast_metrics   : ForecastMetricsFiles,
     economic_data_all  : EconTables]

DefaultDir ==
    [lgbm_model         |-> TrainedModel,
     label_encoders     |-> [location      |-> <<"Colombo", "Kandy">>,
                             property_type |-> <<"Apartment", "House", "Land">>],
     feature_info       |-> CHOOSE x \in FeatureInfoFiles : TRUE,
     shap_importance    |-> CHOOSE x \in ShapFiles : TRUE,
     metrics            |-> CHOOSE x \in MetricsFiles : TRUE,
     forecast_model     |-> 0,
     forecast_encoders  |-> [location      |-> <<"Ampara", "Colombo">>,
                             property_type |-> <<"Apartment", "House", "Land">>],
     district_forecasts |-> "Kandy" :> ("Land" :> CacheBuy @@ "House" :> CacheNoBase),
     forecast_metrics   |-> CHOOSE x \in ForecastMetricsFiles : TRUE,
     economic_data_all  |-> [y \in YearSet |-> EconRow(y)]]

\* a directory whose lgbm_model.pkl was left over from the older pipeline
StaleDirs ==
    { [DefaultDir EXCEPT !.lgbm_model = StaleModel, !.label_encoders = e] :
        e \in EncoderSets }

ArtifactDirs == TrainedDirs \cup StaleDirs

\* which files cannot be opened: none, or a few
AbsentSets == { S \in SUBSET FileNames : Cardinality(S) <= MaxAbsent }

\* the directories the interleaved specification starts on
ConcDirs ==
    { [DefaultDir EXCEPT !.label_encoders = e] : e \in EncoderSets }
    \cup
    { [DefaultDir EXCEPT !.forecast_encoders = f] : f \in ForecastEncoderSets }
    \cup
    { [DefaultDir EXCEPT !.lgbm_model = StaleModel] }

(***************************************************************************)
(* The regressors.  forecast_model.predict(row) followed by                *)
(* round(expm1(.)) is one of a family of deterministic integer functions   *)
(* of the row; model.predict(X) gives a log price in hundredths.           *)
(***************************************************************************)
Cell(c) == IF c.nan THEN 0 ELSE 1 + c.v

ForecastPredict(m, row) ==
    LET k    == (m + row.location + 2 * row.property_type
                   + Cell(row.bedrooms) + 3 * Cell(row.land_size_perches)) % 7
        base == <<1000, 2000, 0, 1000, -1, 8000, 8000>>[k + 1]
        half == <<25, 25, 5, -5, 1, 199, 99>>[k + 1]
        t    == (row.year - 2026) + (row.property_price_index - 280) \div 14
    IN  base + half * t

\* model.predict(X) raises when X has another number of columns than the
\* regressor was fitted on
Accepts(m, cols) == Len(cols) = Len(m.features)

PricePredict(m, X) ==
    1400 + 10 * (m.seed + X.property_type + 3 * X.location + Cell(X.bedrooms)
                   + X.quality_tier + X.is_furnished)
         - 50 * X.is_for_rent

(***************************************************************************)
(* fmt_price                                                               *)
(***************************************************************************)
fmt_price(v) ==
    IF v >= 1000000 THEN [unit |-> "M", n |-> RoundDiv(v * 10, 1000000)]
    ELSE [unit |-> "Rs", n |-> v]

(***************************************************************************)
(* /forecast                                                               *)
(***************************************************************************)
K2026 == str(2026)
K2030 == str(2030)

\* mutant: the two keys of the cache lookup swapped
CacheHit_swappedKeys(district, ptype) ==
    /\ ptype \in DOMAIN district_forecasts
    /\ district \in DOMAIN district_forecasts[ptype]

\* district in district_forecasts and ptype in district_forecasts[district]
CacheHit(district, ptype) ==
    /\ district \in DOMAIN district_forecasts
    /\ ptype \in DOMAIN district_forecasts[district]

\* mutant: a missing 2030 price counted as 0
LiveGrowth_zeroDefault(ps) ==
    LET p2026 == Get(ps, K2026, 1)
        p2030 == Get(ps, K2030, 0)
    IN  IF p2026 > 0 THEN RoundDiv((p2030 - p2026) * 1000, p2026) ELSE 0

\* growth_4yr of the live path
LiveGrowth(ps) ==
    LET p2026 == Get(ps, K2026, 1)
        p2030 == Get(ps, K2030, p2026)
    IN  IF p2026 > 0 THEN RoundDiv((p2030 - p2026) * 1000, p2026) ELSE 0

\* prices = precomputed["prices"]; growth_4yr = precomputed["growth_4yr_pct"]
CachedPrices(precomputed) == precomputed.prices

\* mutant: the growth of a cache hit recomputed from the cached prices
CachedGrowth_recomputed(precomputed) == LiveGrowth(precomputed.prices)

CachedGrowth(precomputed) == precomputed.growth_4yr_pct

\* the fallback categories of the live path
ForecastLocFallback  == "Colombo"
ForecastTypeFallback == "Land"

\* mutant: the two categorical columns in the order /predict has them
ForecastColumns_predictOrder ==
    <<"year", "month", "property_type", "location", "bedrooms", "bathrooms",
      "land_size_perches", "inflation_pct", "lending_rate_pct", "usd_lkr",
      "gdp_growth_pct", "policy_rate_pct", "property_price_index">>

\* the keys of the row dict, in the order the literal lists them
ForecastColumns ==
    <<"year", "month", "location", "property_type", "bedrooms", "bathrooms",
      "land_size_perches", "inflation_pct", "lending_rate_pct", "usd_lkr",
      "gdp_growth_pct", "policy_rate_pct", "property_price_index">>

ForecastRow(inp, year, loc_enc, type_enc, econ) ==
    [year                 |-> year,
     month                |-> 6,
     location             |-> loc_enc,
     property_type        |-> type_enc,
     bedrooms             |-> IF inp.bedrooms.some THEN Num(inp.bedrooms.v) ELSE NaN,
     bathrooms            |-> NaN,
     \* "x if x else nan": None and 0 are both falsy
     land_size_perches    |-> IF inp.land_size_perches.some /\ inp.land_size_perches.v # 0
                              THEN Num(inp.land_size_perches.v) ELSE NaN,
     inflation_pct        |-> econ.inflation_pct,
     lending_rate_pct     |-> econ.lending_rate_pct,
     usd_lkr              |-> econ.usd_lkr,
     gdp_growth_pct       |-> econ.gdp_growth_pct,
     policy_rate_pct      |-> econ.policy_rate_pct,
     property_price_index |-> econ.property_price_index]

\* mutant: the first row of the indicator table, whatever its year
EconOf_firstRow(year) ==
    df_econ_all[CHOOSE y \in DOMAIN df_econ_all :
                    \A z \in DOMAIN df_econ_all : y <= z]

\* econ_row = df_econ_all[df_econ_all["year"] == year]; econ_row.iloc[0]
EconOf(year) ==
    df_econ_all[year]

\* the loop over the years: a year without an indicator row is skipped
RECURSIVE LiveLoop(_, _, _, _, _)
LiveLoop(i, inp, loc_enc, type_enc, acc) ==
    IF i > Len(ForecastYears) THEN acc
    ELSE LET year == ForecastYears[i]
         IN  IF year \notin DOMAIN df_econ_all
             THEN LiveLoop(i + 1, inp, loc_enc, type_enc, acc)
             ELSE LET row == ForecastRow(inp, year, loc_enc, type_enc,
                                         EconOf(year))
                      p   == ForecastPredict(forecast_model, row)
                  IN  LiveLoop(i + 1, inp, loc_enc, type_enc,
                               [prices |-> Put(acc.prices, str(year), p),
                                rows   |-> Append(acc.rows, row)])

BasePrice(ps) == Get(ps, K2026, IF Len(ps) > 0 THEN ps[1].v ELSE 1)

Yoy(p, base_price) ==
    IF base_price > 0 THEN RoundDiv((p - base_price) * 1000, base_price) ELSE 0

YearlyEntries(ps, base_price, ks) ==
    [i \in DOMAIN ks |->
        [year                 |-> int(ks[i]),
         price                |-> Item(ps, ks[i]),
         price_formatted      |-> fmt_price(Item(ps, ks[i])),
         growth_from_2026_pct |-> Yoy(Item(ps, ks[i]), base_price)]]

Yearly(ps) == YearlyEntries(ps, BasePrice(ps), SortedKeys(Keys(ps)))

\* mutant: the thresholds compared with > instead of >=
Signal_strict(growth_4yr) ==
    IF growth_4yr > 20 * 10 THEN "BUY"
    ELSE IF growth_4yr > 10 * 10 THEN "HOLD"
    ELSE "WAIT"

\* growth in tenths of a percent against the thresholds 20 and 10
Signal(growth_4yr) ==
    IF growth_4yr >= 20 * 10 THEN "BUY"
    ELSE IF growth_4yr >= 10 * 10 THEN "HOLD"
    ELSE "WAIT"

\* the sentence of the signal, with growth_4yr formatted as {:.0f}
Insight(signal, growth_4yr) ==
    [text |-> CASE signal = "BUY"  -> "Strong opportunity!"
                [] signal = "HOLD" -> "Moderate growth expected."
                [] OTHER           -> "Slow growth",
     pct  |-> RoundDiv(growth_4yr, 10)]

ForecastBody(inp, ps, growth_4yr) ==
    [district          |-> inp.district,
     property_type     |-> inp.property_type,
     yearly            |-> Yearly(ps),
     growth_4yr_pct    |-> growth_4yr,
     investment_signal |-> Signal(growth_4yr),
     insight           |-> Insight(Signal(growth_4yr), growth_4yr),
     model_r2          |-> RoundDiv(forecast_metrics.test_r2, 10)]

ForecastInputs ==
    [district          : {"Kandy", "Colombo", "Nowhere"},
     property_type     : {"Land", "House", "Villa"},
     land_size_perches : {None, Some(0), Some(10)},
     bedrooms          : {None, Some(0)}]

Forecast(inp) ==
    /\ phase = "serving"
    /\ handler = "none"
    /\ handler' = "forecast"
    /\ req' = inp
    /\ status' = 200
    /\ uncaught' = ""
    /\ IF CacheHit(inp.district, inp.property_type)
       THEN \E precomputed \in {district_forecasts[inp.district][inp.property_type]} :
                /\ path' = "cache"
                /\ encodeCalls' = 0
                /\ modelCalls' = 0
                /\ rows' = <<>>
                /\ columns' = <<>>
                /\ prices' = CachedPrices(precomputed)
                /\ body' = ForecastBody(inp, CachedPrices(precomputed),
                                        CachedGrowth(precomputed))
       ELSE \E out \in {LiveLoop(1, inp,
                                 safe_encode(forecast_encoders.location,
                                        inp.district, ForecastLocFallback),
                                 safe_encode(forecast_encoders.property_type,
                                        inp.property_type, ForecastTypeFallback),
                                     [prices |-> <<>>, rows |-> <<>>])} :
                /\ path' = "live"
                /\ encodeCalls' = 2
                /\ modelCalls' = Len(out.rows)
                /\ rows' = out.rows
                /\ columns' = IF Len(out.rows) > 0 THEN ForecastColumns ELSE <<>>
                /\ prices' = out.prices
                /\ body' = ForecastBody(inp, out.prices, LiveGrowth(out.prices))
    /\ UNCHANGED <<dataset, disk, startup, artifacts, pool>>

(***************************************************************************)
(* 05_train_forecast_model.py, step 6: the stage that writes               *)
(* district_forecasts.json, run on the encoders, the model and the         *)
(* indicator table the server later loads.                                 *)
(***************************************************************************)
\* the row of one (district, type, year): the three numbers all unknown
OfflineRow(year, loc_enc, type_enc, econ) ==
    [year                 |-> year,
     month                |-> 6,
     location             |-> loc_enc,
     property_type        |-> type_enc,
     bedrooms             |-> NaN,
     bathrooms            |-> NaN,
     land_size_perches    |-> NaN,
     inflation_pct        |-> econ.inflation_pct,
     lending_rate_pct     |-> econ.lending_rate_pct,
     usd_lkr              |-> econ.usd_lkr,
     gdp_growth_pct       |-> econ.gdp_growth_pct,
     policy_rate_pct      |-> econ.policy_rate_pct,
     property_price_index |-> econ.property_price_index]

\* for year in forecast_years: a year without an indicator row is skipped,
\* and so is every year of a segment that transform() does not know
RECURSIVE OfflineLoop(_, _, _, _)
OfflineLoop(i, district, ptype, yearly_prices) ==
    IF i > Len(ForecastYears) THEN yearly_prices
    ELSE LET year == ForecastYears[i]
         IN  IF year \notin DOMAIN df_econ_all
             THEN OfflineLoop(i + 1, district, ptype, yearly_prices)
             ELSE IF ~InClasses(forecast_encoders.location, district)
                     \/ ~InClasses(forecast_encoders.property_type, ptype)
             THEN OfflineLoop(i + 1, district, ptype, yearly_prices)
             ELSE LET row == OfflineRow(year,
                                transform(forecast_encoders.location, district),
                                transform(forecast_encoders.property_type, ptype),
                                df_econ_all[year])
                  IN  OfflineLoop(i + 1, district, ptype,
                          Put(yearly_prices, str(year),
                              ForecastPredict(forecast_model, row)))

\* what the stage does for one segment: it writes an entry, writes none
\* (no year gave a price), or stops on the ZeroDivisionError of the
\* unguarded division by the 2026 price
OfflineEntry(district, ptype) ==
    LET yearly_prices == OfflineLoop(1, district, ptype, <<>>)
        p2026 == Get(yearly_prices, K2026, 0)
        p2030 == Get(yearly_prices, K2030, 0)
    IN  IF yearly_prices = <<>>
        THEN [outcome |-> "none", prices |-> <<>>, growth_4yr_pct |-> 0]
        ELSE IF ~(Has(yearly_prices, K2026) /\ Has(yearly_prices, K2030))
        THEN [outcome |-> "written", prices |-> yearly_prices,
              growth_4yr_pct |-> 0]
        ELSE IF p2026 = 0
        THEN [outcome |-> "ZeroDivisionError", prices |-> <<>>,
              growth_4yr_pct |-> 0]
        ELSE [outcome |-> "written", prices |-> yearly_prices,
              growth_4yr_pct |->
                 IF p2026 > 0 THEN RoundDiv((p2030 - p2026) * 1000, p2026)
                 ELSE RoundDiv((p2026 - p2030) * 1000, -p2026)]

(***************************************************************************)
(* /predict                                                                *)
(***************************************************************************)
PredictLocFallback  == "Colombo"
PredictTypeFallback == NoFallback

\* log_rmse = 0.86, in hundredths
log_rmse == 86

\* the keys of the row dict, in the order the literal lists them
PredictColumns ==
    <<"property_type", "location", "bedrooms", "bathrooms",
      "land_size_perches", "is_for_rent", "quality_tier", "is_furnished">>

PredictRow(prop, pt_enc, loc_enc) ==
    [property_type     |-> pt_enc,
     location          |-> loc_enc,
     bedrooms          |-> IF prop.bedrooms.some THEN Num(prop.bedrooms.v) ELSE NaN,
     bathrooms         |-> IF prop.bathrooms.some THEN Num(prop.bathrooms.v) ELSE NaN,
     land_size_perches |-> IF prop.land_size_perches.some
                           THEN Num(prop.land_size_perches.v) ELSE NaN,
     is_for_rent       |-> prop.is_for_rent,
     quality_tier      |-> prop.quality_tier,
     is_furnished      |-> prop.is_furnished]

\* mutant: sorted(items, key=lambda x: x[1]): ascending
RECURSIVE SortedByImportance_ascending(_)
SortedByImportance_ascending(d) ==
    IF Len(d) = 0 THEN <<>>
    ELSE LET i == CHOOSE i \in DOMAIN d :
                     /\ \A j \in DOMAIN d : d[j].v >= d[i].v
                     /\ \A j \in 1..(i - 1) : d[j].v > d[i].v
         IN  <<d[i]>> \o SortedByImportance_ascending(SubSeq(d, 1, i - 1)
                                              \o SubSeq(d, i + 1, Len(d)))

\* sorted(items, key=lambda x: -x[1]): descending, ties in dict order
RECURSIVE SortedByImportance(_)
SortedByImportance(d) ==
    IF Len(d) = 0 THEN <<>>
    ELSE LET i == CHOOSE i \in DOMAIN d :
                     /\ \A j \in DOMAIN d : d[j].v <= d[i].v
                     /\ \A j \in 1..(i - 1) : d[j].v < d[i].v
         IN  <<d[i]>> \o SortedByImportance(SubSeq(d, 1, i - 1)
                                              \o SubSeq(d, i + 1, Len(d)))

\* {"feature": feat, "importance": round(imp, 4)}, in units of 0.0001
ShapEntries(s) ==
    [i \in DOMAIN s |-> [feature |-> s[i].k, importance |-> RoundDiv(s[i].v, 10)]]

ShapBar(d) == ShapEntries(SortedByImportance(d))

\* the response of /predict; a price is expm1 of a log price, kept by its
\* argument (the formatted copies of the three prices are left out)
PredictBody(log_pred) ==
    [predicted_price  |-> [expm1 |-> log_pred],
     price_range_low  |-> [expm1 |-> log_pred - log_rmse],
     price_range_high |-> [expm1 |-> log_pred + log_rmse],
     shap_features    |-> ShapBar(shap_importance),
     model_r2         |-> RoundDiv(metrics.test.R2, 10),
     model_mae        |-> metrics.test.MAE]

\* what the server answers when an exception leaves a handler
InternalServerError == "Internal Server Error"

\* requests: every pair of categories with the numeric fields left at their
\* defaults, and two pairs with one numeric field set, in and out of range
PropertyDefaults ==
    [bedrooms |-> None, bathrooms |-> None, land_size_perches |-> None,
     is_for_rent |-> 0, quality_tier |-> 0, is_furnished |-> 0]

PropertyNumbers ==
    { [PropertyDefaults EXCEPT !.bedrooms = Some(0)],
      [PropertyDefaults EXCEPT !.bedrooms = Some(-1)],
      [PropertyDefaults EXCEPT !.bathrooms = Some(0)],
      [PropertyDefaults EXCEPT !.land_size_perches = Some(0)],
      [PropertyDefaults EXCEPT !.land_size_perches = Some(-5)],
      [PropertyDefaults EXCEPT !.is_for_rent = 1],
      [PropertyDefaults EXCEPT !.is_for_rent = 2],
      [PropertyDefaults EXCEPT !.quality_tier = 3],
      [PropertyDefaults EXCEPT !.quality_tier = 4],
      [PropertyDefaults EXCEPT !.is_furnished = 2],
      [PropertyDefaults EXCEPT !.is_furnished = 3] }

PropertyInputs ==
    { c @@ PropertyDefaults :
        c \in [property_type : {"Land", "House", "Villa"},
               location      : {"Colombo", "Kandy", "Nowhere"}] }
    \cup
    { c @@ n :
        c \in { [property_type |-> "Land",  location |-> "Kandy"],
                [property_type |-> "Villa", location |-> "Nowhere"] },
        n \in PropertyNumbers }

Predict(prop) ==
    LET \* safe_encode raises nothing: the except branch is dead
        pt_enc   == safe_encode(encoders.property_type, prop.property_type,
                                PredictTypeFallback)
        loc_enc  == safe_encode(encoders.location, prop.location,
                                PredictLocFallback)
        X        == PredictRow(prop, pt_enc, loc_enc)
    IN  /\ phase = "serving"
        /\ handler = "none"
        /\ handler' = "predict"
        /\ req' = prop
        /\ path' = "model"
        /\ encodeCalls' = 2
        /\ modelCalls' = 1
        /\ rows' = <<X>>
        /\ columns' = PredictColumns
        /\ prices' = <<>>
        \* model.predict is outside the try: what it raises leaves the handler
        /\ IF Accepts(model, PredictColumns)
           THEN /\ status' = 200
                /\ uncaught' = ""
                /\ body' = PredictBody(PricePredict(model, X))
           ELSE /\ status' = 500
                /\ uncaught' = "ValueError"
                /\ body' = InternalServerError
        /\ UNCHANGED <<dataset, disk, startup, artifacts, pool>>

(***************************************************************************)
(* /meta and /forecast/districts                                           *)
(***************************************************************************)
\* sorted() of district names: the names the artifacts use, alphabetically
NameOrder == <<"Ampara", "Colombo", "Kandy", "Nowhere">>
SortedNames(S) ==
    LET in(x) == x \in S
    IN  SelectSeq(NameOrder, in)

\* the lists derived once from the loaded artifacts
known_locations    == encoders.location
known_types        == encoders.property_type
forecast_districts == SortedNames(DOMAIN district_forecasts)

MetaBody ==
    [locations          |-> known_locations,
     property_types     |-> known_types,
     metrics            |-> metrics.test,
     dataset_size       |-> feature_info.n_rows,
     shap_importance    |-> shap_importance,
     price_stats        |-> feature_info.price_stats,
     forecast_districts |-> forecast_districts]

DistrictsBody ==
    [districts      |-> forecast_districts,
     property_types |-> <<"Land", "House", "Apartment">>,
     years          |-> ForecastYears]

\* a handler that only reads: no encoder lookup, no row, no model
ReadOnly(name, b) ==
    /\ phase = "serving"
    /\ handler = "none"
    /\ handler' = name
    /\ req' = <<>>
    /\ status' = 200
    /\ body' = b
    /\ path' = "none"
    /\ uncaught' = ""
    /\ encodeCalls' = 0
    /\ modelCalls' = 0
    /\ rows' = <<>>
    /\ columns' = <<>>
    /\ prices' = <<>>
    /\ UNCHANGED <<dataset, disk, startup, artifacts, pool>>

get_meta == ReadOnly("meta", MetaBody)

get_forecast_districts == ReadOnly("districts", DistrictsBody)

(***************************************************************************)
(* Start-up: the module body opens and loads the artifact files one after  *)
(* another; an open() or load that fails raises and the import is over.    *)
(***************************************************************************)
\* a module global that no statement has bound yet
Unloaded == <<>>

\* mutant: a file that cannot be opened is passed over
Readable_lenient(f) == TRUE

Readable(f) == f \notin absent

\* the value of the global bound to file name after the file f was loaded
Bind(name, f, current) == IF f = name THEN files[name] ELSE current

Load ==
    /\ phase = "loading"
    /\ \E f \in {LoadOrder[loaded + 1]} :
          IF Readable(f)
          THEN /\ loaded' = loaded + 1
               /\ phase' = IF loaded + 1 = Len(LoadOrder) THEN "serving"
                           ELSE "loading"
               /\ model' = Bind("lgbm_model", f, model)
               /\ encoders' = Bind("label_encoders", f, encoders)
               /\ feature_info' = Bind("feature_info", f, feature_info)
               /\ shap_importance' = Bind("shap_importance", f, shap_importance)
               /\ metrics' = Bind("metrics", f, metrics)
               /\ forecast_model' = Bind("forecast_model", f, forecast_model)
               /\ forecast_encoders' = Bind("forecast_encoders", f, forecast_encoders)
               /\ district_forecasts' = Bind("district_forecasts", f, district_forecasts)
               /\ forecast_metrics' = Bind("forecast_metrics", f, forecast_metrics)
               /\ df_econ_all' = Bind("economic_data_all", f, df_econ_all)
          ELSE /\ phase' = "aborted"
               /\ loaded' = loaded
               /\ UNCHANGED artifacts
    /\ UNCHANGED <<dataset, disk, observed, pool>>

(***************************************************************************)
(* The server: artifacts loaded once, then requests one after another.     *)
(***************************************************************************)
\* no request in hand: nothing request-local exists
Idle ==
    /\ handler = "none"
    /\ req = <<>>
    /\ status = 0
    /\ body = <<>>
    /\ path = "none"
    /\ uncaught = ""
    /\ encodeCalls = 0
    /\ modelCalls = 0
    /\ rows = <<>>
    /\ columns = <<>>
    /\ prices = <<>>

\* the handler returns: the response leaves and its locals are dropped
Return ==
    /\ handler # "none"
    /\ handler' = "none"
    /\ req' = <<>>
    /\ status' = 0
    /\ body' = <<>>
    /\ path' = "none"
    /\ uncaught' = ""
    /\ encodeCalls' = 0
    /\ modelCalls' = 0
    /\ rows' = <<>>
    /\ columns' = <<>>
    /\ prices' = <<>>
    /\ UNCHANGED <<dataset, disk, startup, artifacts, pool>>

(***************************************************************************)
(* Worker threads.  The handlers are plain def functions, so the server    *)
(* runs them on a thread pool: several requests are in flight at once and  *)
(* their statements interleave.  A thread holds the locals of its handler. *)
(* The local prices is a reference: on a cache hit to the dict inside      *)
(* district_forecasts, on the live path to a dict of its own.              *)
(***************************************************************************)
Threads == 1..MaxThreads

\* the local prices before any statement binds it
NoRef == [shared |-> FALSE, d |-> "", t |-> "", local |-> <<>>]

\* prices = precomputed["prices"]: the cached dict itself, not a copy
HitRef(inp) ==
    [shared |-> TRUE, d |-> inp.district, t |-> inp.property_type, local |-> <<>>]

\* mutant: the live path fills the cache entry of the segment
NewPrices_cached(inp) ==
    [shared |-> TRUE, d |-> inp.district, t |-> inp.property_type, local |-> <<>>]

\* prices = {}
NewPrices(inp) ==
    [shared |-> FALSE, d |-> "", t |-> "", local |-> <<>>]

\* the dict a reference points to
Deref(ref) ==
    IF ~ref.shared THEN ref.local
    ELSE IF CacheHit(ref.d, ref.t) THEN district_forecasts[ref.d][ref.t].prices
    ELSE <<>>

\* prices[k] = v, seen from the thread and seen from the cache
StoreLocal(ref, k, v) ==
    IF ref.shared THEN ref ELSE [ref EXCEPT !.local = Put(@, k, v)]

StoreShared(cache, ref, k, v) ==
    IF ~ref.shared THEN cache
    ELSE LET byType == IF ref.d \in DOMAIN cache THEN cache[ref.d] ELSE <<>>
             entry  == IF ref.t \in DOMAIN byType THEN byType[ref.t]
                       ELSE [prices |-> <<>>, growth_4yr_pct |-> 0]
         IN  (ref.d :> ((ref.t :> [entry EXCEPT !.prices = Put(@, k, v)])
                          @@ byType))
             @@ cache

IdleThread ==
    [pc |-> "idle", kind |-> "none", req |-> <<>>, codes |-> <<>>, i |-> 0,
     ref |-> NoRef, growth |-> 0, rows |-> <<>>, status |-> 0,
     body |-> <<>>, after |-> FALSE]

\* every global but the forecast cache
otherArtifacts ==
    <<model, encoders, feature_info, shap_importance, metrics,
      forecast_model, forecast_encoders, forecast_metrics, df_econ_all>>

\* the requests the threads are given
ConcForecastInputs ==
    { [district |-> "Kandy", property_type |-> "Land",
       land_size_perches |-> None, bedrooms |-> None],
      [district |-> "Nowhere", property_type |-> "Villa",
       land_size_perches |-> None, bedrooms |-> None] }

ConcPropertyInputs ==
    { [property_type |-> "Villa", location |-> "Nowhere"] @@ PropertyDefaults }

\* /forecast, the cache test and the fast path
BeginForecast(t, inp) ==
    /\ phase = "serving"
    /\ threads[t].pc = "idle"
    /\ threads' = [threads EXCEPT ![t] =
          IF CacheHit(inp.district, inp.property_type)
          THEN [threads[t] EXCEPT
                  !.pc = "tail", !.kind = "forecast", !.req = inp,
                  !.ref = HitRef(inp),
                  !.growth = CachedGrowth(
                      district_forecasts[inp.district][inp.property_type])]
          ELSE [threads[t] EXCEPT
                  !.pc = "encode", !.kind = "forecast", !.req = inp]]
    /\ UNCHANGED <<dataset, disk, startup, artifacts, observed, finished>>

\* /forecast, the two safe_encode calls and prices = {}
EncodeForecast(t) ==
    /\ threads[t].pc = "encode"
    /\ threads[t].kind = "forecast"
    /\ threads' = [threads EXCEPT ![t] =
          [threads[t] EXCEPT
             !.pc = "loop",
             !.codes = <<safe_encode(forecast_encoders.location,
                                     threads[t].req.district, ForecastLocFallback),
                         safe_encode(forecast_encoders.property_type,
                                     threads[t].req.property_type,
                                     ForecastTypeFallback)>>,
             !.ref = NewPrices(threads[t].req),
             !.i = 1,
             !.after = finished]]
    /\ UNCHANGED <<dataset, disk, startup, artifacts, observed, finished>>

\* /forecast, one pass of the loop over the years, or the growth after it
YearStep(t) ==
    /\ threads[t].pc = "loop"
    /\ \E th \in {threads[t]} :
          IF th.i > Len(ForecastYears)
          THEN /\ threads' = [threads EXCEPT ![t] =
                     [th EXCEPT !.pc = "tail",
                                !.growth = LiveGrowth(Deref(th.ref))]]
               /\ UNCHANGED district_forecasts
          ELSE IF ForecastYears[th.i] \notin DOMAIN df_econ_all
          THEN /\ threads' = [threads EXCEPT ![t] = [th EXCEPT !.i = th.i + 1]]
               /\ UNCHANGED district_forecasts
          ELSE \E row \in {ForecastRow(th.req, ForecastYears[th.i],
                                       th.codes[1], th.codes[2],
                                       EconOf(ForecastYears[th.i]))} :
                 /\ threads' = [threads EXCEPT ![t] =
                       [th EXCEPT
                          !.i = th.i + 1,
                          !.rows = Append(th.rows, row),
                          !.ref = StoreLocal(th.ref, str(ForecastYears[th.i]),
                                     ForecastPredict(forecast_model, row))]]
                 /\ district_forecasts' =
                       StoreShared(district_forecasts, th.ref,
                                   str(ForecastYears[th.i]),
                                   ForecastPredict(forecast_model, row))
    /\ UNCHANGED <<dataset, disk, startup, otherArtifacts, observed, finished>>

\* /forecast, the yearly list, the signal and the response
RespondForecast(t) ==
    /\ threads[t].pc = "tail"
    /\ threads' = [threads EXCEPT ![t] =
          [threads[t] EXCEPT
             !.pc = "done", !.status = 200,
             !.body = ForecastBody(threads[t].req, Deref(threads[t].ref),
                                   threads[t].growth)]]
    /\ UNCHANGED <<dataset, disk, startup, artifacts, observed, finished>>

\* /predict, the request arrives
BeginPredict(t, prop) ==
    /\ phase = "serving"
    /\ threads[t].pc = "idle"
    /\ threads' = [threads EXCEPT ![t] =
          [threads[t] EXCEPT !.pc = "encode", !.kind = "predict", !.req = prop]]
    /\ UNCHANGED <<dataset, disk, startup, artifacts, observed, finished>>

\* /predict, the two safe_encode calls and the frame X
EncodePredict(t) ==
    /\ threads[t].pc = "encode"
    /\ threads[t].kind = "predict"
    /\ \E codes \in {<<safe_encode(encoders.property_type,
                                    threads[t].req.property_type,
                                    PredictTypeFallback),
                        safe_encode(encoders.location, threads[t].req.location,
                                    PredictLocFallback)>>} :
          threads' = [threads EXCEPT ![t] =
             [threads[t] EXCEPT
                !.pc = "model",
                !.codes = codes,
                !.after = finished,
                !.rows = <<PredictRow(threads[t].req, codes[1], codes[2])>>]]
    /\ UNCHANGED <<dataset, disk, startup, artifacts, observed, finished>>

\* /predict, the model invocation and the response
InvokePredict(t) ==
    /\ threads[t].pc = "model"
    /\ threads' = [threads EXCEPT ![t] =
          IF Accepts(model, PredictColumns)
          THEN [threads[t] EXCEPT
                  !.pc = "done", !.status = 200,
                  !.body = PredictBody(PricePredict(model, threads[t].rows[1]))]
          ELSE [threads[t] EXCEPT
                  !.pc = "done", !.status = 500, !.body = InternalServerError]]
    /\ UNCHANGED <<dataset, disk, startup, artifacts, observed, finished>>

\* /meta and /forecast/districts
ReadOnlyThread(t, name, b) ==
    /\ phase = "serving"
    /\ threads[t].pc = "idle"
    /\ threads' = [threads EXCEPT ![t] =
          [threads[t] EXCEPT !.pc = "done", !.kind = name, !.status = 200,
                             !.body = b]]
    /\ UNCHANGED <<dataset, disk, startup, artifacts, observed, finished>>

MetaThread(t) == ReadOnlyThread(t, "meta", MetaBody)

DistrictsThread(t) == ReadOnlyThread(t, "districts", DistrictsBody)

\* the response leaves
Finish(t) ==
    /\ threads[t].pc = "done"
    /\ threads' = [threads EXCEPT ![t] = IdleThread]
    /\ finished' = TRUE
    /\ UNCHANGED <<dataset, disk, startup, artifacts, observed>>

(***************************************************************************)
(* dataset/extract_quality.py.  A text is its words (maximal runs of word  *)
(* characters) and the separators between them: one blank, a longer run of *)
(* blanks, or a hyphen.  \bw\b matches a word that is w; a\s+b matches two *)
(* neighbouring words with blanks between them; a[\s\-]b two neighbouring  *)
(* words with exactly one blank or one hyphen between them.  A value that  *)
(* is not a str (the NaN of an empty cell) has str = FALSE.                *)
(***************************************************************************)
Seps == {" ", "  ", "-"}

NotAString == [str |-> FALSE, words |-> <<>>, seps |-> <<>>]

\* the texts over a vocabulary, up to a number of words
TextsOver(V, n) ==
    UNION { { [str |-> TRUE, words |-> w, seps |-> s] :
                 w \in [1..k -> V], s \in [1..(k - 1) -> Seps] } :
            k \in 0..n }

\* str.lower() of a word
LowerOf(w) ==
    CASE w = "Super"     -> "super"
      [] w = "FURNISHED" -> "furnished"
      [] OTHER           -> w

\* text.lower()
lower(t) == [t EXCEPT !.words = [i \in DOMAIN t.words |-> LowerOf(t.words[i])]]

\* re.search(r'\bw\b', t)
Word(t, w) == \E i \in DOMAIN t.words : t.words[i] = w

\* re.search(r'\ba\s+b\b', t)
Spaced(t, a, b) ==
    \E i \in DOMAIN t.seps :
        t.words[i] = a /\ t.seps[i] \in {" ", "  "} /\ t.words[i + 1] = b

\* re.search(r'\ba[\s\-]b\b', t)
Joined(t, a, b) ==
    \E i \in DOMAIN t.seps :
        t.words[i] = a /\ t.seps[i] \in {" ", "-"} /\ t.words[i + 1] = b

\* any(re.search(p, t) for p in ..._PATTERNS), pattern by pattern
SUPER_LUXURY_PATTERNS(t) ==
    \/ Spaced(t, "super", "luxury")
    \/ Spaced(t, "super", "lux") \/ Word(t, "superlux")
    \/ Spaced(t, "ultra", "luxury")
    \/ Word(t, "penthouse")
    \/ Spaced(t, "ultra", "premium")
    \/ Spaced(t, "super", "premium")

LUXURY_PATTERNS(t) ==
    \/ Word(t, "luxury") \/ Word(t, "luxe") \/ Word(t, "premium")
    \/ Word(t, "upmarket")
    \/ Joined(t, "high", "end")
    \/ Word(t, "exclusive") \/ Word(t, "prestige") \/ Word(t, "elegant")
    \/ Word(t, "villa") \/ Word(t, "villab")
    \/ Word(t, "posh")

MODERN_PATTERNS(t) ==
    \/ Word(t, "modern")
    \/ Spaced(t, "newly", "built")
    \/ Spaced(t, "brand", "new")
    \/ Spaced(t, "new", "built")
    \/ Word(t, "architect") \/ Word(t, "architectural") \/ Word(t, "architects")
    \/ Word(t, "contemporary")
    \/ Spaced(t, "just", "built")
    \/ Spaced(t, "newly", "constructed")
    \/ Spaced(t, "new", "construction")

FULLY_FURNISHED_PATTERNS(t) ==
    \/ Spaced(t, "fully", "furnished")
    \/ Spaced(t, "full", "furnished")
    \/ Spaced(t, "complete", "furnished")
    \/ Spaced(t, "completely", "furnished")

SEMI_FURNISHED_PATTERNS(t) ==
    \/ Joined(t, "semi", "furnished")
    \/ Spaced(t, "part", "furnished") \/ Spaced(t, "partly", "furnished")
    \/ Spaced(t, "partially", "furnished")
    \/ Joined(t, "half", "furnished")

UNFURNISHED_PATTERNS(t) ==
    \/ Word(t, "unfurnished")
    \/ Spaced(t, "not", "furnished")
    \/ Spaced(t, "without", "furniture")

FURNISHED_PATTERNS(t) == Word(t, "furnished")

\* mutant: the luxury patterns tried before the super-luxury ones
classify_quality_luxuryFirst(txt) ==
    IF ~txt.str THEN 0
    ELSE LET t == lower(txt)
         IN  IF LUXURY_PATTERNS(t) THEN 2
             ELSE IF SUPER_LUXURY_PATTERNS(t) THEN 3
             ELSE IF MODERN_PATTERNS(t) THEN 1
             ELSE 0

classify_quality(txt) ==
    IF ~txt.str THEN 0
    ELSE LET t == lower(txt)
         IN  IF SUPER_LUXURY_PATTERNS(t) THEN 3
             ELSE IF LUXURY_PATTERNS(t) THEN 2
             ELSE IF MODERN_PATTERNS(t) THEN 1
             ELSE 0

\* mutant: the generic word tried before the unfurnished patterns
classify_furnishing_genericFirst(txt) ==
    IF ~txt.str THEN 0
    ELSE LET t == lower(txt)
         IN  IF FULLY_FURNISHED_PATTERNS(t) THEN 2
             ELSE IF SEMI_FURNISHED_PATTERNS(t) THEN 1
             ELSE IF FURNISHED_PATTERNS(t) THEN 2
             ELSE IF UNFURNISHED_PATTERNS(t) THEN 0
             ELSE 0

classify_furnishing(txt) ==
    IF ~txt.str THEN 0
    ELSE LET t == lower(txt)
         IN  IF FULLY_FURNISHED_PATTERNS(t) THEN 2
             ELSE IF SEMI_FURNISHED_PATTERNS(t) THEN 1
             ELSE IF UNFURNISHED_PATTERNS(t) THEN 0
             ELSE IF FURNISHED_PATTERNS(t) THEN 2
             ELSE 0

\* title + " " + description of one row, over the words of the quality
\* patterns or over those of the furnishing patterns, or a cell that is
\* not a str
Texts ==
    TextsOver({"Super", "luxury", "lux", "superlux", "modern", "villab",
               "house"}, MaxWords)
    \cup TextsOver({"fully", "semi", "not", "FURNISHED", "furnished",
                    "unfurnished", "house"}, MaxWords)
    \cup {NotAString}

\* df["quality_tier"] = text_field.apply(classify_quality), one row
ApplyQuality ==
    /\ text # <<>>
    /\ quality_tier = -1
    /\ quality_tier' = classify_quality(text)
    /\ UNCHANGED <<server, ikman, lpw, dates, text, is_furnished>>

\* df["is_furnished"] = text_field.apply(classify_furnishing), one row
ApplyFurnishing ==
    /\ quality_tier # -1
    /\ is_furnished = -1
    /\ is_furnished' = classify_furnishing(text)
    /\ UNCHANGED <<server, ikman, lpw, dates, text, quality_tier>>

(***************************************************************************)
(* dataset/scrape_properties.py, the posting date of an ikman.lk ad.  A    *)
(* relative time string is its core (nothing, one of the fixed phrases, a  *)
(* sequence of "<n> <unit>" parts, or other words), whether blanks         *)
(* surround it and whether it is in upper case.  A time is the number of   *)
(* minutes it lies before datetime.now().                                  *)
(***************************************************************************)
Core(kind, parts) == [kind |-> kind, parts |-> parts]
TimeStr(core, ws, upper) == [core |-> core, ws |-> ws, upper |-> upper]

\* ""
EmptyStr == TimeStr(Core("empty", <<>>), FALSE, FALSE)

\* the strings the two fields of an ad may hold
TimeStrs ==
    { TimeStr(c, ws, upper) :
        c \in { Core(k, <<>>) : k \in {"empty", "bump_up", "just now",
                                        "a minute ago", "yesterday"} }
              \cup { Core("rel", <<[n |-> n, unit |-> u]>>) :
                        n \in 0..MaxAge,
                        u \in {"minute", "hour", "day", "week", "month"} }
              \cup { Core("rel", <<[n |-> 1, unit |-> "week"],
                                   [n |-> MaxAge, unit |-> "day"]>>) },
        ws \in BOOLEAN, upper \in BOOLEAN }
       \ { TimeStr(Core("empty", <<>>), ws, TRUE) : ws \in BOOLEAN }

\* s.strip(), s.lower() and bool(s)
strip(s)   == [s EXCEPT !.ws = FALSE]
lowered(s) == [s EXCEPT !.upper = FALSE]
NonEmpty(s) == s.core.kind # "empty" \/ s.ws

\* m = re.search(r"(\d+)\s*<unit>", s): the leftmost part of that unit
Found(s, unit) == \E i \in DOMAIN s.core.parts : s.core.parts[i].unit = unit
Group1(s, unit) ==
    s.core.parts[CHOOSE i \in DOMAIN s.core.parts :
                    /\ s.core.parts[i].unit = unit
                    /\ \A j \in DOMAIN s.core.parts :
                          s.core.parts[j].unit = unit => i <= j].n

Result(listed_at, days_ago) == [listed_at |-> listed_at, days_ago |-> days_ago]

parse_relative_time(time_str) ==
    IF \/ ~NonEmpty(time_str)
       \/ lowered(strip(time_str)).core.kind
             \in {"bump_up", "empty", "just now", "a minute ago"}
    THEN Result(Some(0), Some(0))
    ELSE LET s == lowered(strip(time_str))
         IN  IF Found(s, "minute")
             THEN Result(Some(Group1(s, "minute")), Some(0))
             ELSE IF Found(s, "hour")
             THEN Result(Some(60 * Group1(s, "hour")), Some(0))
             ELSE IF Found(s, "day")
             THEN Result(Some(1440 * Group1(s, "day")), Some(Group1(s, "day")))
             ELSE IF Found(s, "week")
             THEN Result(Some(1440 * 7 * Group1(s, "week")),
                         Some(7 * Group1(s, "week")))
             ELSE IF Found(s, "month")
             THEN Result(Some(1440 * 30 * Group1(s, "month")),
                         Some(30 * Group1(s, "month")))
             ELSE Result(None, None)

\* str(ad.get(key, "") or "")
StrOf(field) == IF field.present THEN field.s ELSE EmptyStr

\* mutant: the bump date taken as the posting date, without the estimate
parse_ikman_date_noOffset(a) ==
    LET timestamp_str == StrOf(a.timeStamp)
        bump_date_str == StrOf(a.lastBumpUpDate)
    IN  IF NonEmpty(timestamp_str)
           /\ lowered(timestamp_str) # TimeStr(Core("bump_up", <<>>), FALSE, FALSE)
        THEN parse_relative_time(timestamp_str)
        ELSE IF NonEmpty(bump_date_str)
        THEN parse_relative_time(bump_date_str)
        ELSE Result(None, None)

parse_ikman_date(a) ==
    LET timestamp_str == StrOf(a.timeStamp)
        bump_date_str == StrOf(a.lastBumpUpDate)
    IN  IF NonEmpty(timestamp_str)
           /\ lowered(timestamp_str) # TimeStr(Core("bump_up", <<>>), FALSE, FALSE)
        THEN parse_relative_time(timestamp_str)
        ELSE IF NonEmpty(bump_date_str)
        THEN LET r == parse_relative_time(bump_date_str)
             IN  IF r.days_ago.some
                 THEN Result(Some(1440 * (r.days_ago.v + 7)),
                             Some(r.days_ago.v + 7))
                 ELSE r
        ELSE Result(None, None)

\* the ads of a page, as far as the two fields go: each has the key
\* missing or null, or holds a string
Ads ==
    [timeStamp      : {[present |-> FALSE, s |-> EmptyStr]}
                         \cup [present : {TRUE}, s : TimeStrs],
     lastBumpUpDate : {[present |-> FALSE, s |-> EmptyStr]}
                         \cup [present : {TRUE}, s : TimeStrs]]

\* listed_at, posted_days_ago = parse_ikman_date(ad)
ParseDate ==
    /\ ad # <<>>
    /\ parsed = <<>>
    /\ parsed' = parse_ikman_date(ad)
    /\ UNCHANGED <<server, ikman, lpw, texts, ad>>

(***************************************************************************)
(* dataset/scrape_properties.py, the ikman.lk scraper.  The server answers *)
(* each request as it likes; a record is known by its url.                 *)
(***************************************************************************)
\* (slug, ad_type, max_pages): the page limits 200, 80, 80 scaled down
IKMAN_CATEGORIES ==
    << [slug |-> "land-for-sale",       ad_type |-> "for_sale", max_pages |-> MaxPages],
       [slug |-> "houses",              ad_type |-> "for_sale", max_pages |-> MaxPages - 2],
       [slug |-> "apartments-for-sale", ad_type |-> "for_sale", max_pages |-> MaxPages - 2] >>

\* the slugs of the ads the site lists
Slugs == {"villa-in-kandy", "land-in-galle"}

\* f"https://ikman.lk/en/ad/{slug_val}"
Url(slug_val) == <<"https://ikman.lk/en/ad/", slug_val>>

\* what session.get and extract_ikman_json give for one page: HTTP 403,
\* another status that is not 200, a 200 page with its ads (none when the
\* page has no initialData or lists nothing), a timeout, a request error
Answer(kind, ads) == [kind |-> kind, ads |-> ads]
Answers ==
    { Answer(k, <<>>) : k \in {"403", "http", "200", "Timeout", "RequestException"} }
    \cup { Answer("200", <<s>>) : s \in Slugs }

\* mutant: every page that brings no records counts as an empty page
Counted_everyFailure(r, n) ==
    IF r.kind = "200" /\ r.ads # <<>> THEN 0 ELSE n + 1

\* consecutive_empty after the page: += 1 on "not ads", = 0 on ads
Counted(r, n) ==
    IF r.kind # "200" THEN n
    ELSE IF r.ads = <<>> THEN n + 1
    ELSE 0

\* the statements that leave the loop: 403, and the third empty page
Breaks(r, n) ==
    \/ r.kind = "403"
    \/ r.kind = "200" /\ r.ads = <<>> /\ n >= 3

\* records.append({... "url": ...}) for ad in ads
Appended(recs, r) ==
    IF r.kind = "200"
    THEN recs \o [i \in DOMAIN r.ads |-> Url(r.ads[i])]
    ELSE recs

\* scrape_all_ikman calls scrape_ikman_category for the next category
EnterCategory ==
    /\ ikman_pc = "next"
    /\ category < Len(IKMAN_CATEGORIES)
    /\ category' = category + 1
    /\ ikman_pc' = "loop"
    /\ page' = 1
    /\ consecutive_empty' = 0
    /\ records' = <<>>
    /\ resp' = Answer("none", <<>>)
    /\ UNCHANGED <<server, lpw, dates, texts, all_records, seen_urls>>

\* one pass of "for page in range(1, max_pages + 1)"
RequestPage(r) ==
    /\ ikman_pc = "loop"
    /\ page <= IKMAN_CATEGORIES[category].max_pages
    /\ resp' = r
    /\ consecutive_empty' = Counted(r, consecutive_empty)
    /\ records' = Appended(records, r)
    /\ IF Breaks(r, Counted(r, consecutive_empty))
          \/ page = IKMAN_CATEGORIES[category].max_pages
       THEN ikman_pc' = "return" /\ page' = page
       ELSE ikman_pc' = "loop" /\ page' = page + 1
    /\ UNCHANGED <<server, lpw, dates, texts, category, all_records, seen_urls>>

\* new_recs = [r for r in cat_recs if r["url"] not in seen_urls]
RECURSIVE NewRecs(_, _)
NewRecs(cat_recs, seen) ==
    IF cat_recs = <<>> THEN <<>>
    ELSE IF Head(cat_recs) \in seen THEN NewRecs(Tail(cat_recs), seen)
    ELSE <<Head(cat_recs)>> \o NewRecs(Tail(cat_recs), seen)

\* return records, and what scrape_all_ikman does with them
Collect ==
    /\ ikman_pc = "return"
    /\ \E new_recs \in {NewRecs(records, seen_urls)} :
          /\ seen_urls' = seen_urls \cup {new_recs[i] : i \in DOMAIN new_recs}
          /\ all_records' = all_records \o new_recs
    /\ ikman_pc' = IF category = Len(IKMAN_CATEGORIES) THEN "done" ELSE "next"
    /\ UNCHANGED <<server, lpw, dates, texts, category, page,
                   consecutive_empty, records, resp>>

(***************************************************************************)
(* dataset/scrape_properties.py, the lankapropertyweb.com scraper.  A      *)
(* record is known by the offset of the page it came from.                 *)
(***************************************************************************)
step == 30

\* what one request gives: a status that is not 200, a 200 page with its
\* listing cards and how many of them parse_lpw_card turns into a record
\* (a card without a title gives None), a timeout, a request error
LpwAnswer(kind, cards, recs) == [kind |-> kind, cards |-> cards, recs |-> recs]
LpwAnswers ==
    { LpwAnswer(k, 0, 0) : k \in {"http", "Timeout", "RequestException"} }
    \cup { a \in [kind : {"200"}, cards : 0..MaxCards, recs : 0..MaxCards] :
              a.recs <= a.cards }

\* one pass of "while len(records) < needed"
LpwRequest(r) ==
    /\ lpw_pc = "loop"
    /\ Len(lpw_records) < needed
    \* pages beyond the last offset of the model are not requested
    /\ (r.kind = "200") => from_index < MaxOffsets * step
    /\ lpw_resp' = r
    /\ needed' = needed
    /\ CASE r.kind = "http" ->
               \* break
               /\ lpw_pc' = "returned"
               /\ UNCHANGED <<from_index, lpw_empty, lpw_records>>
         [] r.kind = "200" /\ r.cards = 0 ->
               /\ lpw_empty' = lpw_empty + 1
               /\ lpw_records' = lpw_records
               /\ IF lpw_empty + 1 >= 3
                  THEN lpw_pc' = "returned" /\ from_index' = from_index
                  ELSE lpw_pc' = "loop" /\ from_index' = from_index + step
         [] r.kind = "200" /\ r.cards > 0 ->
               /\ lpw_empty' = 0
               /\ lpw_records' = lpw_records \o [i \in 1..r.recs |-> from_index]
               /\ from_index' = from_index + step
               /\ lpw_pc' = IF Len(lpw_records) + r.recs < needed
                            THEN "loop" ELSE "returned"
         [] OTHER ->
               \* except requests.Timeout, except requests.RequestException
               /\ lpw_pc' = "loop"
               /\ UNCHANGED <<from_index, lpw_empty, lpw_records>>
    /\ UNCHANGED <<server, ikman, dates, texts>>

(***************************************************************************)
(* The dataset scripts before they run.                                    *)
(***************************************************************************)
NoIkman ==
    /\ ikman_pc = "idle"
    /\ category = 0
    /\ page = 0
    /\ consecutive_empty = 0
    /\ records = <<>>
    /\ resp = Answer("none", <<>>)
    /\ all_records = <<>>
    /\ seen_urls = {}

NoLpw ==
    /\ lpw_pc = "idle"
    /\ needed = 0
    /\ from_index = 0
    /\ lpw_empty = 0
    /\ lpw_records = <<>>
    /\ lpw_resp = LpwAnswer("none", 0, 0)

NoDates == ad = <<>> /\ parsed = <<>>

NoTexts == text = <<>> /\ quality_tier = -1 /\ is_furnished = -1

(***************************************************************************)
(* The specifications.                                                     *)
(***************************************************************************)
InitCommon ==
    /\ phase = "loading"
    /\ loaded = 0
    /\ model = Unloaded
    /\ encoders = Unloaded
    /\ feature_info = Unloaded
    /\ shap_importance = Unloaded
    /\ metrics = Unloaded
    /\ forecast_model = Unloaded
    /\ forecast_encoders = Unloaded
    /\ district_forecasts = Unloaded
    /\ forecast_metrics = Unloaded
    /\ df_econ_all = Unloaded
    /\ Idle
    /\ threads = [t \in Threads |-> IdleThread]
    /\ finished = FALSE

Init ==
    /\ files \in ArtifactDirs
    /\ absent \in AbsentSets
    /\ absent # {} => files = DefaultDir
    /\ InitCommon
    /\ NoIkman /\ NoLpw /\ NoDates /\ NoTexts

Next ==
    \/ Load
    \/ \E inp \in ForecastInputs : Forecast(inp)
    \/ \E prop \in PropertyInputs : Predict(prop)
    \/ get_meta
    \/ get_forecast_districts
    \/ Return

Spec == Init /\ [][Next]_vars

InitConc ==
    /\ files \in ConcDirs
    /\ absent = {}
    /\ InitCommon
    /\ NoIkman /\ NoLpw /\ NoDates /\ NoTexts

NextConc ==
    \/ Load
    \/ \E t \in Threads :
          \/ \E inp \in ConcForecastInputs : BeginForecast(t, inp)
          \/ EncodeForecast(t)
          \/ YearStep(t)
          \/ RespondForecast(t)
          \/ \E prop \in ConcPropertyInputs : BeginPredict(t, prop)
          \/ EncodePredict(t)
          \/ InvokePredict(t)
          \/ MetaThread(t)
          \/ DistrictsThread(t)
          \/ Finish(t)

SpecConc == InitConc /\ [][NextConc]_vars

\* the servers' variables while a dataset script runs
NoServer ==
    /\ files = DefaultDir
    /\ absent = {}
    /\ InitCommon

InitText ==
    /\ NoServer /\ NoIkman /\ NoLpw /\ NoDates
    /\ text \in Texts
    /\ quality_tier = -1
    /\ is_furnished = -1

NextText == ApplyQuality \/ ApplyFurnishing

SpecText == InitText /\ [][NextText]_vars

InitDates ==
    /\ NoServer /\ NoIkman /\ NoLpw /\ NoTexts
    /\ ad \in Ads
    /\ parsed = <<>>

NextDates == ParseDate

SpecDates == InitDates /\ [][NextDates]_vars

InitIkman ==
    /\ NoServer /\ NoLpw /\ NoDates /\ NoTexts
    /\ ikman_pc = "next"
    /\ category = 0
    /\ page = 0
    /\ consecutive_empty = 0
    /\ records = <<>>
    /\ resp = Answer("none", <<>>)
    /\ all_records = <<>>
    /\ seen_urls = {}

NextIkman ==
    \/ EnterCategory
    \/ \E r \in Answers : RequestPage(r)
    \/ Collect

SpecIkman == InitIkman /\ [][NextIkman]_vars

InitLpw ==
    /\ NoServer /\ NoIkman /\ NoDates /\ NoTexts
    /\ lpw_pc = "loop"
    /\ needed \in 1..MaxNeeded
    /\ from_index = 0
    /\ lpw_empty = 0
    /\ lpw_records = <<>>
    /\ lpw_resp = LpwAnswer("none", 0, 0)

NextLpw == \E r \in LpwAnswers : LpwRequest(r)

SpecLpw == InitLpw /\ [][NextLpw]_vars

\* the loop keeps running as long as it can take a step
SpecLpwFair == SpecLpw /\ WF_vars(NextLpw)

(***************************************************************************)
(* Vocabulary of the properties: what the last request asked for, read     *)
(* from the artifacts alone.                                               *)
(***************************************************************************)
IsForecast == handler = "forecast"
IsPredict  == handler = "predict"

\* the cache holds an entry for the request's exact (district, type) pair
EntryExists ==
    /\ req.district \in DOMAIN district_forecasts
    /\ req.property_type \in DOMAIN district_forecasts[req.district]

Entry == district_forecasts[req.district][req.property_type]

Classes(le) == {le[i] : i \in DOMAIN le}

\* the forecast years that have an indicator row
RowYears == YearSet \cap DOMAIN df_econ_all

\* g is x = n / d * 100 rounded to one decimal (either way on a tie), d > 0
IsRounded(g, n, d) ==
    LET e == g * d - n * 1000
    IN  2 * e <= d /\ -2 * e <= d

\* the base-year (2026) price of the response's price map is zero or missing
BaseZeroOrMissing == ~Has(prices, K2026) \/ Item(prices, K2026) = 0

(***************************************************************************)
(* C1.  On a cache hit the response's growth_4yr_pct is the growth stored  *)
(* in the cache entry and the yearly prices are the cached prices, one     *)
(* yearly entry per cached key: nothing is recomputed.                     *)
(***************************************************************************)
C1_CacheHitReturnsCached ==
    (IsForecast /\ EntryExists) =>
        /\ status = 200
        /\ body.growth_4yr_pct = Entry.growth_4yr_pct
        /\ Len(body.yearly) = Len(Entry.prices)
        /\ \A i \in DOMAIN Entry.prices :
              \E j \in DOMAIN body.yearly :
                  /\ body.yearly[j].year = int(Entry.prices[i].k)
                  /\ body.yearly[j].price = Entry.prices[i].v

\* a hit on an entry whose stored growth (0) is not what its prices give
C1_Witness ==
    /\ IsForecast /\ EntryExists
    /\ Entry.growth_4yr_pct = 0
    /\ ~Has(Entry.prices, K2026)
    /\ Get(Entry.prices, K2030, 0) = 1100
    /\ body.growth_4yr_pct = 0

(***************************************************************************)
(* C2.  With a base-year (2026) price that is zero or missing, the 4-year  *)
(* growth of the live path and every per-year growth of both paths is 0.   *)
(***************************************************************************)
C2_ZeroGuard ==
    (IsForecast /\ status = 200 /\ BaseZeroOrMissing) =>
        /\ path = "live" => body.growth_4yr_pct = 0
        /\ \A i \in DOMAIN body.yearly : body.yearly[i].growth_from_2026_pct = 0

(***************************************************************************)
(* C3.  On the live path a forecast year without an indicator row fails    *)
(* the request; a successful live forecast holds all five years.           *)
(***************************************************************************)
C3_MissingYearRejected ==
    (IsForecast /\ path = "live") =>
        /\ RowYears # YearSet => status = 400
        /\ status = 200 => {body.yearly[i].year : i \in DOMAIN body.yearly} = YearSet

(***************************************************************************)
(* C4.  A segment with no cache entry whose district or property type the  *)
(* forecast encoders do not know is rejected with InvalidInput (400): no   *)
(* series, growth or signal is returned for it.                            *)
(***************************************************************************)
C4_UnknownSegmentRejected ==
    (/\ IsForecast
     /\ ~EntryExists
     /\ \/ req.district \notin Classes(forecast_encoders.location)
        \/ req.property_type \notin Classes(forecast_encoders.property_type))
    => status = 400

(***************************************************************************)
(* C5.  The forecast model is invoked only when the cache has no entry for *)
(* the exact pair: a hit makes no encoder lookup and no model invocation;  *)
(* a miss (also a cached district with another type) takes the live path   *)
(* with one model invocation per forecast year that has an indicator row.  *)
(***************************************************************************)
C5_ModelOnlyOnMiss ==
    IsForecast =>
        /\ EntryExists =>
              path = "cache" /\ encodeCalls = 0 /\ modelCalls = 0 /\ rows = <<>>
        /\ ~EntryExists =>
              /\ path = "live"
              /\ encodeCalls = 2
              /\ modelCalls = Cardinality(RowYears)
              /\ Len(rows) = modelCalls

\* a cached district asked for a type its entry lacks
C5_Witness ==
    /\ IsForecast
    /\ req.district \in DOMAIN district_forecasts
    /\ req.property_type \notin DOMAIN district_forecasts[req.district]
    /\ path = "live"
    /\ modelCalls = 5

(***************************************************************************)
(* C6.  investment_signal is fixed by growth_4yr_pct alone, on both paths: *)
(* BUY iff growth >= 20, HOLD iff 10 <= growth < 20, WAIT iff growth < 10. *)
(***************************************************************************)
C6_SignalBands ==
    (IsForecast /\ status = 200) =>
        LET g == body.growth_4yr_pct
            x == body.investment_signal
        IN  /\ x \in {"BUY", "HOLD", "WAIT"}
            /\ x = "BUY"  <=> g >= 200
            /\ x = "HOLD" <=> (g >= 100 /\ g < 200)
            /\ x = "WAIT" <=> g < 100

\* the boundary 10.0 computed on the live path
C6_Witness ==
    /\ IsForecast /\ path = "live"
    /\ body.growth_4yr_pct = 100
    /\ body.investment_signal = "HOLD"

(***************************************************************************)
(* C7.  Every yearly entry's growth_from_2026_pct is the change of its     *)
(* price relative to the 2026 price, (price - base) / base * 100 rounded   *)
(* to one decimal, and 0 when the 2026 price is zero or missing; the 2026  *)
(* entry's own growth is 0.                                                *)
(***************************************************************************)
C7_GrowthFrom2026 ==
    (IsForecast /\ status = 200) =>
        \A i \in DOMAIN body.yearly :
            LET e    == body.yearly[i]
                base == Get(prices, K2026, 0)
            IN  /\ IF base > 0
                   THEN IsRounded(e.growth_from_2026_pct, e.price - base, base)
                   ELSE e.growth_from_2026_pct = 0
                /\ e.year = 2026 => e.growth_from_2026_pct = 0

(***************************************************************************)
(* C8.  The yearly list is in strictly ascending year order and holds      *)
(* exactly one entry per year key of the price map.                        *)
(***************************************************************************)
C8_YearlyAscending ==
    (IsForecast /\ status = 200) =>
        /\ \A i, j \in DOMAIN body.yearly :
              i < j => body.yearly[i].year < body.yearly[j].year
        /\ Len(body.yearly) = Cardinality(Keys(prices))
        /\ {body.yearly[i].year : i \in DOMAIN body.yearly}
              = {int(k) : k \in Keys(prices)}

\* a live series from which one year was left out
C8_Witness ==
    /\ IsForecast /\ path = "live"
    /\ Len(body.yearly) = 4
    /\ body.yearly[1].year = 2027
    /\ body.yearly[4].year = 2030

(***************************************************************************)
(* C9.  /predict encodes a location that is not in the location encoder    *)
(* table as the code of "Colombo", never as code 0.                        *)
(***************************************************************************)
C9_UnknownLocationIsColombo ==
    (IsPredict /\ req.location \notin Classes(encoders.location)) =>
        /\ \E i \in DOMAIN encoders.location :
              encoders.location[i] = "Colombo" /\ rows[1].location = i - 1
        /\ rows[1].location # 0

(***************************************************************************)
(* C9, amended.  /predict encodes a location that is not in the location   *)
(* encoder table as the code of "Colombo" when "Colombo" is in the table,  *)
(* and as 0 when it is not.                                                *)
(***************************************************************************)
C9_UnknownLocationFallback ==
    (IsPredict /\ req.location \notin Classes(encoders.location)) =>
        IF "Colombo" \in Classes(encoders.location)
        THEN \E i \in DOMAIN encoders.location :
                encoders.location[i] = "Colombo" /\ rows[1].location = i - 1
        ELSE rows[1].location = 0

C9_Witness ==
    /\ IsPredict
    /\ req.location = "Nowhere"
    /\ encoders.location = <<"Ampara", "Colombo">>
    /\ rows[1].location = 1

(***************************************************************************)
(* C10.  Every categorical code follows one decision table: the code of    *)
(* the value when it is in the table; else the code of the field's         *)
(* fallback when there is one and it is in the table; else 0.  Fallbacks:  *)
(* none for /predict property_type, "Colombo" for /predict location and    *)
(* /forecast location, "Land" for /forecast property_type.  A code is a    *)
(* non-negative integer.                                                   *)
(***************************************************************************)
FollowsTable(code, le, value, fallback) ==
    /\ code \in Nat
    /\ value \in Classes(le) => (code + 1 \in DOMAIN le /\ le[code + 1] = value)
    /\ (value \notin Classes(le) /\ fallback # "" /\ fallback \in Classes(le))
          => (code + 1 \in DOMAIN le /\ le[code + 1] = fallback)
    /\ (value \notin Classes(le) /\ (fallback = "" \/ fallback \notin Classes(le)))
          => code = 0

C10_DecisionTable ==
    /\ IsPredict =>
          /\ FollowsTable(rows[1].property_type, encoders.property_type,
                          req.property_type, "")
          /\ FollowsTable(rows[1].location, encoders.location,
                          req.location, "Colombo")
    /\ (IsForecast /\ path = "live") =>
          \A i \in DOMAIN rows :
              /\ FollowsTable(rows[i].location, forecast_encoders.location,
                              req.district, "Colombo")
              /\ FollowsTable(rows[i].property_type, forecast_encoders.property_type,
                              req.property_type, "Land")

\* an unknown type on the live path takes the code of "Land"
C10_Witness ==
    /\ IsForecast /\ path = "live"
    /\ req.property_type = "Villa"
    /\ forecast_encoders.property_type = <<"Apartment", "House", "Land">>
    /\ Len(rows) > 0
    /\ rows[1].property_type = 2

(***************************************************************************)
(* Vocabulary of the properties of rows, responses and threads.            *)
(***************************************************************************)
Range(q) == {q[i] : i \in DOMAIN q}

\* the cell an optional request number stands for: unknown iff omitted
CellOf(o) == IF o.some THEN Num(o.v) ELSE NaN

\* the request of the last /predict keeps to the documented ranges
InRange(r) ==
    /\ r.quality_tier \in 0..3
    /\ r.is_furnished \in 0..2
    /\ r.is_for_rent \in {0, 1}
    /\ \A f \in {"bedrooms", "bathrooms", "land_size_perches"} :
          r[f].some => r[f].v >= 0

RECURSIVE SumImportance(_)
SumImportance(q) ==
    IF Len(q) = 0 THEN 0 ELSE q[1].importance + SumImportance(Tail(q))

Abs(x) == IF x < 0 THEN -x ELSE x

\* thread t has made its two safe_encode calls
HasCodes(t) == threads[t].codes # <<>>

(***************************************************************************)
(* C11.  In every feature row built by /predict and by the live path of    *)
(* /forecast, an optional numeric field (bedrooms, bathrooms,              *)
(* land_size_perches) is the unknown sentinel NaN exactly when the request *)
(* left it out; a supplied number, 0 included, is kept as that number.     *)
(***************************************************************************)
C11_MissingIffOmitted ==
    /\ IsPredict =>
          \A f \in {"bedrooms", "bathrooms", "land_size_perches"} :
              rows[1][f] = CellOf(req[f])
    /\ (IsForecast /\ path = "live") =>
          \A i \in DOMAIN rows :
              /\ rows[i].bedrooms = CellOf(req.bedrooms)
              /\ rows[i].land_size_perches = CellOf(req.land_size_perches)
              \* a /forecast request has no bathrooms field
              /\ rows[i].bathrooms = NaN

(***************************************************************************)
(* C12.  The row handed to a model has exactly the columns of the model's  *)
(* training schema, in the same order, each with a value: the /predict     *)
(* row the eight FEATURES of 02_train_evaluate.py (and of main.py), every  *)
(* live /forecast row the thirteen FEATURES of 05_train_forecast_model.py. *)
(***************************************************************************)
C12_RowMatchesSchema ==
    /\ IsPredict =>
          /\ columns = TrainFEATURES
          /\ columns = FEATURES
          /\ Len(rows) = 1
          /\ DOMAIN rows[1] = Range(TrainFEATURES)
    /\ (IsForecast /\ path = "live" /\ Len(rows) > 0) =>
          /\ columns = ForecastFEATURES
          /\ \A i \in DOMAIN rows : DOMAIN rows[i] = Range(ForecastFEATURES)

\* five thirteen-column rows went to the forecast model
C12_Witness ==
    /\ IsForecast /\ path = "live"
    /\ Len(rows) = 5
    /\ Len(columns) = 13
    /\ columns[3] = "location"
    /\ rows[5].year = 2030

(***************************************************************************)
(* C13.  Two requests in flight that encode the same categorical value     *)
(* with the same encoder table hold the same code, whatever ran between    *)
(* them: a code depends on the table, the value and the fallback only.     *)
(***************************************************************************)
C13_SameCodeForSameValue ==
    \A t, u \in Threads :
        (HasCodes(t) /\ HasCodes(u) /\ threads[t].kind = threads[u].kind) =>
            IF threads[t].kind = "predict"
            THEN /\ threads[t].req.property_type = threads[u].req.property_type
                       => threads[t].codes[1] = threads[u].codes[1]
                 /\ threads[t].req.location = threads[u].req.location
                       => threads[t].codes[2] = threads[u].codes[2]
            ELSE /\ threads[t].req.district = threads[u].req.district
                       => threads[t].codes[1] = threads[u].codes[1]
                 /\ threads[t].req.property_type = threads[u].req.property_type
                       => threads[t].codes[2] = threads[u].codes[2]

\* the unknown type "Villa" encoded twice by /predict, a request completed
\* in between
C13_Witness ==
    /\ HasCodes(1) /\ HasCodes(2)
    /\ threads[1].kind = "predict" /\ threads[2].kind = "predict"
    /\ threads[1].req.property_type = "Villa"
    /\ threads[2].req.property_type = "Villa"
    /\ "Villa" \notin Classes(encoders.property_type)
    /\ ~threads[1].after /\ threads[2].after
    /\ threads[1].codes[1] = 0

(***************************************************************************)
(* C14.  /predict rejects a property_type that is not in the encoder table *)
(* (the field has no fallback) with InvalidInput (400), and does not       *)
(* invoke the model for it.                                                *)
(***************************************************************************)
C14_UnknownTypeRejected ==
    (IsPredict /\ req.property_type \notin Classes(encoders.property_type)) =>
        /\ status = 400
        /\ modelCalls = 0

(***************************************************************************)
(* C15.  Once the server is serving, no step of any request, however the   *)
(* requests of /predict, /forecast, /meta and /forecast/districts          *)
(* interleave, changes a start-up artifact (the regressors, the encoder    *)
(* tables, the forecast cache with each prices map, the indicator table,   *)
(* the metrics, the SHAP importances) or the files they were loaded from;  *)
(* a step writes the locals of one request only.                           *)
(***************************************************************************)
C15_ArtifactsReadOnly ==
    [][ phase = "serving" =>
          /\ artifacts' = artifacts
          /\ disk' = disk
          /\ \A t, u \in Threads :
                (t # u /\ threads'[t] # threads[t]) => threads'[u] = threads[u]
      ]_vars

\* a cache hit holding the cached prices while another request has stored
\* two years of its own series
C15_Witness ==
    /\ phase = "serving"
    /\ \E t, u \in Threads :
          /\ threads[t].pc = "tail" /\ threads[t].ref.shared
          /\ threads[u].pc = "loop" /\ ~threads[u].ref.shared
          /\ Len(threads[u].ref.local) = 2
    /\ district_forecasts = files.district_forecasts

(***************************************************************************)
(* C16.  Every /predict response carries a baseline and one signed         *)
(* contribution per feature, computed for that request's row, with         *)
(* baseline + sum of contributions equal to the model's raw log-scale      *)
(* output within a relative tolerance of 1e-3.                             *)
(***************************************************************************)
C16_AdditiveAttribution ==
    (IsPredict /\ status = 200) =>
        /\ "baseline" \in DOMAIN body
        /\ Len(body.shap_features) = Len(PredictColumns)
        /\ LET raw   == 100 * body.predicted_price.expm1
               total == body.baseline + SumImportance(body.shap_features)
           IN  1000 * Abs(total - raw) <= Abs(raw)

(***************************************************************************)
(* C17.  shap_features of a /predict response has exactly one entry per    *)
(* model feature, labelled with the display name of that feature, in       *)
(* descending order of absolute magnitude.                                 *)
(***************************************************************************)
C17_ShapFeaturesOrdered ==
    (IsPredict /\ status = 200) =>
        LET sf == body.shap_features
        IN  /\ Len(sf) = Len(FEATURES)
            /\ \A k \in DOMAIN FEATURES :
                  Cardinality({i \in DOMAIN sf :
                                 sf[i].feature = feature_labels[FEATURES[k]]}) = 1
            /\ \A i, j \in DOMAIN sf :
                  i < j => Abs(sf[i].importance) >= Abs(sf[j].importance)

\* the largest importance first, the two that round to the same value next
\* to each other in file order
C17_Witness ==
    /\ IsPredict /\ status = 200
    /\ body.shap_features[1] = [feature |-> "Rental vs Sale", importance |-> 20000]
    /\ body.shap_features[5] = [feature |-> "Number of Bedrooms", importance |-> 1200]
    /\ body.shap_features[6] = [feature |-> "Number of Bathrooms", importance |-> 1200]
    /\ body.shap_features[8].importance = 0

(***************************************************************************)
(* C18.  The server is serving only when every artifact file was opened    *)
(* and loaded, each global holding the content of its file; a file that    *)
(* cannot be opened aborts the start-up at its load statement, and no      *)
(* request is handled before serving or after an abort.                    *)
(***************************************************************************)
C18_ServeOnlyLoaded ==
    /\ phase = "serving" =>
          /\ absent = {}
          /\ loaded = Len(LoadOrder)
          /\ model = files.lgbm_model
          /\ encoders = files.label_encoders
          /\ feature_info = files.feature_info
          /\ shap_importance = files.shap_importance
          /\ metrics = files.metrics
          /\ forecast_model = files.forecast_model
          /\ forecast_encoders = files.forecast_encoders
          /\ district_forecasts = files.district_forecasts
          /\ forecast_metrics = files.forecast_metrics
          /\ df_econ_all = files.economic_data_all
    /\ phase = "aborted" =>
          /\ loaded < Len(LoadOrder)
          /\ LoadOrder[loaded + 1] \in absent
    /\ (phase = "loading" /\ loaded > 0) => LoadOrder[loaded] \notin absent
    /\ handler # "none" => phase = "serving"

\* the start-up aborted at the eighth file, seven globals bound
C18_Witness ==
    /\ phase = "aborted"
    /\ absent = {"district_forecasts"}
    /\ loaded = 7
    /\ forecast_encoders = files.forecast_encoders
    /\ district_forecasts = Unloaded
    /\ handler = "none"

(***************************************************************************)
(* C19.  Every row /predict hands to the price model has quality_tier in   *)
(* 0..3, is_furnished in 0..2, is_for_rent in {0, 1} and bedrooms,         *)
(* bathrooms and land_size_perches each unknown or non-negative; a request *)
(* outside these ranges gets no prediction.                                *)
(***************************************************************************)
C19_RangesEnforced ==
    IsPredict =>
        /\ \A i \in DOMAIN rows :
              /\ rows[i].quality_tier \in 0..3
              /\ rows[i].is_furnished \in 0..2
              /\ rows[i].is_for_rent \in {0, 1}
              /\ \A f \in {"bedrooms", "bathrooms", "land_size_perches"} :
                    rows[i][f].nan \/ rows[i][f].v >= 0
        /\ ~InRange(req) => (status # 200 /\ modelCalls = 0)

(***************************************************************************)
(* C20.  No request to /predict or /forecast ends with an exception that   *)
(* left the handler: whatever is raised while encoding, looking up the     *)
(* indicators or the cache, invoking a model or building the response is   *)
(* answered by the handler itself with a structured error.                 *)
(***************************************************************************)
C20_ErrorsCaught ==
    (IsPredict \/ IsForecast) =>
        /\ uncaught = ""
        /\ status # 500

(***************************************************************************)
(* Vocabulary of the live-path rows.                                       *)
(***************************************************************************)
Indicators ==
    {"inflation_pct", "lending_rate_pct", "usd_lkr", "gdp_growth_pct",
     "policy_rate_pct", "property_price_index"}

IsLive == IsForecast /\ path = "live"

(***************************************************************************)
(* C21.  On the live path the row built for year Y carries year = Y, month *)
(* 6, the segment's two codes (the same in every row, as the fallback      *)
(* policy resolves them) and the six indicator values of the table row     *)
(* whose year is Y; there is one row per forecast year that has a table    *)
(* row, and the price of a row is stored under the key of its year only.   *)
(***************************************************************************)
C21_RowOfYear ==
    IsLive =>
        /\ {rows[i].year : i \in DOMAIN rows} = RowYears
        /\ Len(rows) = Cardinality(RowYears)
        /\ Keys(prices) = {str(y) : y \in RowYears}
        /\ Len(prices) = Cardinality(RowYears)
        /\ \A i \in DOMAIN rows :
              /\ rows[i].month = 6
              /\ rows[i].location = rows[1].location
              /\ rows[i].property_type = rows[1].property_type
              /\ FollowsTable(rows[i].location, forecast_encoders.location,
                              req.district, ForecastLocFallback)
              /\ FollowsTable(rows[i].property_type,
                              forecast_encoders.property_type,
                              req.property_type, ForecastTypeFallback)
              /\ df_econ_all[rows[i].year].year = rows[i].year
              /\ \A f \in Indicators :
                    rows[i][f] = df_econ_all[rows[i].year][f]
              /\ Item(prices, str(rows[i].year))
                    = ForecastPredict(forecast_model, rows[i])

\* a live forecast over a table without 2026: four rows, the second one
\* carrying the indicators of 2028, not those of the table's first row
C21_Witness ==
    /\ IsLive
    /\ DOMAIN df_econ_all = YearSet \ {2026}
    /\ Len(rows) = 4
    /\ rows[2].year = 2028
    /\ rows[2].usd_lkr = 320
    /\ rows[2].usd_lkr # df_econ_all[2027].usd_lkr
    /\ Has(prices, str(2028)) /\ ~Has(prices, K2026)

\* the yearly entries of the response that carry a given year
EntriesOf(y) == {i \in DOMAIN body.yearly : body.yearly[i].year = y}

(***************************************************************************)
(* C24.  In a live-path response that has both a 2026 and a 2030 entry,    *)
(* growth_4yr_pct is the growth_from_2026_pct of the 2030 entry; in one    *)
(* without a 2030 entry growth_4yr_pct is 0.                               *)
(***************************************************************************)
C24_GrowthIs2030Entry ==
    (IsLive /\ status = 200) =>
        /\ (EntriesOf(2026) # {} /\ EntriesOf(2030) # {}) =>
              \A i \in EntriesOf(2030) :
                  body.growth_4yr_pct = body.yearly[i].growth_from_2026_pct
        /\ EntriesOf(2030) = {} => body.growth_4yr_pct = 0

\* a live response with both entries and a growth other than 0
C24_Witness ==
    /\ IsLive /\ status = 200
    /\ EntriesOf(2026) # {} /\ EntriesOf(2030) # {}
    /\ body.growth_4yr_pct # 0
    /\ \E i \in EntriesOf(2030) :
          body.yearly[i].growth_from_2026_pct = body.growth_4yr_pct

\* a live response without a 2030 entry, its 2026 price above 0
C24_WitnessNo2030 ==
    /\ IsLive /\ status = 200
    /\ EntriesOf(2030) = {}
    /\ \E i \in EntriesOf(2026) : body.yearly[i].price > 0
    /\ body.growth_4yr_pct = 0

\* the last request was a live forecast of a segment both forecast encoders
\* know, with bedrooms and land size omitted
KnownSegmentLive ==
    /\ IsLive /\ status = 200
    /\ req.bedrooms = None /\ req.land_size_perches = None
    /\ req.district \in Classes(forecast_encoders.location)
    /\ req.property_type \in Classes(forecast_encoders.property_type)

(***************************************************************************)
(* C23.  For a segment the forecast encoders know, the entry the offline   *)
(* stage writes equals what the live path answers for that segment with    *)
(* bedrooms and land size omitted: the same year-to-price map and the same *)
(* growth_4yr_pct, also with the 2026 or 2030 price missing or the 2026    *)
(* price 0.                                                                *)
(***************************************************************************)
C23_OfflineEqualsLive ==
    KnownSegmentLive =>
        OfflineEntry(req.district, req.property_type)
            = [outcome |-> "written", prices |-> prices,
               growth_4yr_pct |-> body.growth_4yr_pct]

\* the two stages agree on the prices whenever the offline stage writes
C23_SamePrices ==
    (KnownSegmentLive
       /\ OfflineEntry(req.district, req.property_type).outcome = "written")
    => OfflineEntry(req.district, req.property_type).prices = prices

\* they differ in the growth: the 2026 price missing and the 2030 price there
C23_GrowthDiffers ==
    /\ KnownSegmentLive
    /\ ~Has(prices, K2026) /\ Has(prices, K2030)
    /\ OfflineEntry(req.district, req.property_type).growth_4yr_pct = 0
    /\ body.growth_4yr_pct # 0

\* the offline stage stops where the live path answers 0
C23_OfflineRaises ==
    /\ KnownSegmentLive
    /\ OfflineEntry(req.district, req.property_type).outcome
          = "ZeroDivisionError"
    /\ body.growth_4yr_pct = 0

(***************************************************************************)
(* Vocabulary of the responses of threads: what a handler answers when it  *)
(* runs in one piece on the globals.                                       *)
(***************************************************************************)
AloneForecast(inp) ==
    IF CacheHit(inp.district, inp.property_type)
    THEN LET precomputed == district_forecasts[inp.district][inp.property_type]
         IN  [status |-> 200,
              body   |-> ForecastBody(inp, CachedPrices(precomputed),
                                      CachedGrowth(precomputed))]
    ELSE LET out == LiveLoop(1, inp,
                        safe_encode(forecast_encoders.location,
                                    inp.district, ForecastLocFallback),
                        safe_encode(forecast_encoders.property_type,
                                    inp.property_type, ForecastTypeFallback),
                        [prices |-> <<>>, rows |-> <<>>])
         IN  [status |-> 200,
              body   |-> ForecastBody(inp, out.prices, LiveGrowth(out.prices))]

AlonePredict(prop) ==
    IF Accepts(model, PredictColumns)
    THEN [status |-> 200,
          body   |-> PredictBody(PricePredict(model,
                        PredictRow(prop,
                            safe_encode(encoders.property_type,
                                        prop.property_type, PredictTypeFallback),
                            safe_encode(encoders.location, prop.location,
                                        PredictLocFallback))))]
    ELSE [status |-> 500, body |-> InternalServerError]

Answered(t) ==
    threads[t].pc = "done" /\ threads[t].kind \in {"forecast", "predict"}

Response(t) == [status |-> threads[t].status, body |-> threads[t].body]

(***************************************************************************)
(* C25.  The response to a /predict or /forecast request is a function of  *)
(* the request and the start-up artifacts only: while serving, the globals *)
(* are the artifacts as loaded, every answered request holds the response  *)
(* its handler gives when run alone on them, and so two answered requests  *)
(* that are the same hold the same response, whatever ran before them.     *)
(***************************************************************************)
C25_ResponseOfRequestOnly ==
    /\ phase = "serving" =>
          /\ model = files.lgbm_model
          /\ encoders = files.label_encoders
          /\ shap_importance = files.shap_importance
          /\ metrics = files.metrics
          /\ forecast_model = files.forecast_model
          /\ forecast_encoders = files.forecast_encoders
          /\ district_forecasts = files.district_forecasts
          /\ forecast_metrics = files.forecast_metrics
          /\ df_econ_all = files.economic_data_all
    /\ \A t \in Threads :
          Answered(t) =>
             Response(t) = IF threads[t].kind = "forecast"
                           THEN AloneForecast(threads[t].req)
                           ELSE AlonePredict(threads[t].req)
    /\ \A t, u \in Threads :
          (/\ Answered(t) /\ Answered(u)
           /\ threads[t].kind = threads[u].kind
           /\ threads[t].req = threads[u].req)
          => Response(t) = Response(u)

\* the same live forecast answered twice, once before and once after
\* another request had completed, the growth other than 0
C25_Witness ==
    /\ Answered(1) /\ Answered(2)
    /\ threads[1].kind = "forecast" /\ threads[2].kind = "forecast"
    /\ threads[1].req = threads[2].req
    /\ ~CacheHit(threads[1].req.district, threads[1].req.property_type)
    /\ ~threads[1].after /\ threads[2].after
    /\ threads[1].body.growth_4yr_pct # 0
    /\ threads[1].body = threads[2].body

\* the same /predict failing twice on a stale model file
C25_WitnessFailed ==
    /\ Answered(1) /\ Answered(2)
    /\ threads[1].kind = "predict" /\ threads[2].kind = "predict"
    /\ threads[1].status = 500 /\ threads[2].status = 500
    /\ threads[2].after

(***************************************************************************)
(* Vocabulary of the classifiers: the tiers whose patterns match a text.   *)
(***************************************************************************)
TiersMatching(t) ==
    {0} \cup (IF SUPER_LUXURY_PATTERNS(t) THEN {3} ELSE {})
        \cup (IF LUXURY_PATTERNS(t) THEN {2} ELSE {})
        \cup (IF MODERN_PATTERNS(t) THEN {1} ELSE {})

Highest(S) == CHOOSE x \in S : \A y \in S : y <= x

(***************************************************************************)
(* C29.  classify_quality returns the highest tier of which a pattern      *)
(* matches the text: 3 for a super-luxury pattern (also when luxury or     *)
(* modern patterns match too), else 2 for a luxury pattern, else 1 for a   *)
(* modern pattern, else 0; the result is in 0..3, and 0 for a value that   *)
(* is not a string.                                                        *)
(***************************************************************************)
C29_HighestTier ==
    quality_tier # -1 =>
        /\ quality_tier \in 0..3
        /\ ~text.str => quality_tier = 0
        /\ text.str => quality_tier = Highest(TiersMatching(lower(text)))

\* "Super luxury modern": patterns of all three tiers match, the tier is 3
C29_Witness ==
    /\ quality_tier = 3
    /\ text.words = <<"Super", "luxury", "modern">>
    /\ text.seps = <<" ", " ">>
    /\ TiersMatching(lower(text)) = {0, 1, 2, 3}

(***************************************************************************)
(* C30.  classify_furnishing decides by fixed priority: 2 for a            *)
(* fully-furnished pattern; else 1 for a semi-furnished pattern; else 0    *)
(* for an explicit unfurnished pattern, also when the generic word         *)
(* "furnished" occurs, as in "not furnished"; else 2 for the generic word; *)
(* else 0.  The result is in 0..2, and 0 for a value that is not a string. *)
(***************************************************************************)
C30_FurnishingPriority ==
    is_furnished # -1 =>
        /\ is_furnished \in 0..2
        /\ ~text.str => is_furnished = 0
        /\ text.str =>
              LET t == lower(text)
              IN  /\ FULLY_FURNISHED_PATTERNS(t) => is_furnished = 2
                  /\ (~FULLY_FURNISHED_PATTERNS(t) /\ SEMI_FURNISHED_PATTERNS(t))
                        => is_furnished = 1
                  /\ (/\ ~FULLY_FURNISHED_PATTERNS(t)
                      /\ ~SEMI_FURNISHED_PATTERNS(t)
                      /\ UNFURNISHED_PATTERNS(t))
                        => is_furnished = 0
                  /\ (/\ ~FULLY_FURNISHED_PATTERNS(t)
                      /\ ~SEMI_FURNISHED_PATTERNS(t)
                      /\ ~UNFURNISHED_PATTERNS(t))
                        => is_furnished = IF Word(t, "furnished") THEN 2 ELSE 0

\* "house not FURNISHED": the generic word occurs, the answer is 0
C30_Witness ==
    /\ is_furnished = 0
    /\ text.words = <<"house", "not", "FURNISHED">>
    /\ text.seps = <<" ", "  ">>
    /\ Word(lower(text), "furnished")

(***************************************************************************)
(* Vocabulary of the posting date: the two strings of the ad, and the age  *)
(* in days a single "<n> <unit>" stands for.                               *)
(***************************************************************************)
TS == StrOf(ad.timeStamp)
BS == StrOf(ad.lastBumpUpDate)

\* the string is "bump_up", in any case
IsBumpUp(s) == s.core.kind = "bump_up" /\ ~s.ws

UsesTimeStamp == NonEmpty(TS) /\ ~IsBumpUp(TS)

OnePart(s) == s.core.kind = "rel" /\ Len(s.core.parts) = 1

DaysOf(part) ==
    CASE part.unit = "day"   -> part.n
      [] part.unit = "week"  -> 7 * part.n
      [] part.unit = "month" -> 30 * part.n
      [] OTHER               -> 0

BumpParses == NonEmpty(BS) /\ parse_relative_time(BS).days_ago.some

(***************************************************************************)
(* C28.  parse_ikman_date takes timeStamp as the posting time whenever it  *)
(* is non-empty and not "bump_up": posted_days_ago is then its parsed age, *)
(* without offset.  Otherwise, when lastBumpUpDate is present and parses,  *)
(* posted_days_ago is the parsed bump age plus 7; when neither field is    *)
(* usable the result is (None, None).  posted_days_ago is never negative.  *)
(***************************************************************************)
C28_PostingDate ==
    parsed # <<>> =>
        /\ UsesTimeStamp =>
              /\ parsed = parse_relative_time(TS)
              /\ OnePart(TS) =>
                    parsed.days_ago = Some(DaysOf(TS.core.parts[1]))
        /\ (~UsesTimeStamp /\ BumpParses) =>
              /\ parsed.days_ago
                    = Some(parse_relative_time(BS).days_ago.v + 7)
              /\ parsed.listed_at = Some(1440 * parsed.days_ago.v)
              /\ OnePart(BS) =>
                    parsed.days_ago = Some(DaysOf(BS.core.parts[1]) + 7)
        /\ (~UsesTimeStamp /\ ~BumpParses) => parsed = Result(None, None)
        /\ parsed.days_ago.some => parsed.days_ago.v >= 0
        /\ parsed.listed_at.some <=> parsed.days_ago.some

\* a bumped ad, "BUMP_UP" and a bump two weeks ago: 21 days
C28_Witness ==
    /\ parsed # <<>>
    /\ TS = TimeStr(Core("bump_up", <<>>), FALSE, TRUE)
    /\ BS = TimeStr(Core("rel", <<[n |-> 2, unit |-> "week"]>>), FALSE, FALSE)
    /\ parsed.days_ago = Some(21)

\* a time stamp of one month wins over a bump date: 30 days, no offset
C28_WitnessTimeStamp ==
    /\ parsed # <<>>
    /\ TS = TimeStr(Core("rel", <<[n |-> 1, unit |-> "month"]>>), TRUE, FALSE)
    /\ BumpParses
    /\ parsed.days_ago = Some(30)

(***************************************************************************)
(* Vocabulary of the ikman.lk scraper.                                     *)
(***************************************************************************)
max_pages == IKMAN_CATEGORIES[category].max_pages

IsPrefix(p, q) == Len(p) <= Len(q) /\ SubSeq(q, 1, Len(p)) = p

\* a step of the page loop left the loop
Stopped == ikman_pc' = "return"

C26_Witness403 ==
    /\ ikman_pc = "return"
    /\ category = 1
    /\ page = 3
    /\ resp.kind = "403"
    /\ Len(records) = 2

(***************************************************************************)
(* C27.  The list scrape_all_ikman returns holds no two records with the   *)
(* same url, whether the two come from different categories or from        *)
(* different pages of one category.                                        *)
(***************************************************************************)
C27_UniqueUrls ==
    \A i, j \in DOMAIN all_records :
        all_records[i] = all_records[j] => i = j

\* what the filter does achieve: a url collected from an earlier category
\* is not collected again from a later one
C27_UniqueAcrossCategories ==
    [][ ikman_pc = "return" =>
          \A i \in DOMAIN all_records' :
              i > Len(all_records) => all_records'[i] \notin seen_urls
      ]_vars

\* the same ad listed on two pages of the first category is returned twice
C27_DuplicateWithinCategory ==
    /\ ikman_pc = "done"
    /\ Len(all_records) = 2
    /\ all_records[1] = all_records[2]
    /\ all_records[1] = Url("villa-in-kandy")

(***************************************************************************)
(* C22.  scrape_lpw terminates for every sequence of answers of the        *)
(* server: also when the requests keep timing out or failing with a        *)
(* request error, and when the pages keep bringing cards of which none     *)
(* gives a record, the loop ends after a bounded number of requests.       *)
(***************************************************************************)
C22_LpwTerminates == <>(lpw_pc = "returned")

\* a timeout or a request error changes nothing the loop condition or the
\* next request depends on: the same page is requested again
C22_RetryWithoutProgress ==
    [][ (lpw_pc = "loop" /\ lpw_resp'.kind \in {"Timeout", "RequestException"}) =>
          /\ lpw_pc' = "loop"
          /\ from_index' = from_index
          /\ lpw_empty' = lpw_empty
          /\ lpw_records' = lpw_records
      ]_vars

\* a page with cards of which none gives a record resets the counter and
\* moves on: neither the counter nor the records bring the loop to an end
C22_CardsWithoutRecords ==
    [][ (/\ lpw_pc = "loop"
         /\ lpw_resp'.kind = "200" /\ lpw_resp'.cards > 0 /\ lpw_resp'.recs = 0) =>
          /\ lpw_pc' = "loop"
          /\ lpw_empty' = 0
          /\ lpw_records' = lpw_records
          /\ from_index' = from_index + step
      ]_vars

====
